---- MODULE Spec2Model ----
(***************************************************************************)
(* Model of the AeroNexa floor-plan editor (floor-plan-editor-v2.js) and   *)
(* of the device registry it talks to (devices.js).                        *)
(*                                                                         *)
(* The state is the module-level state of the editor script, the closure   *)
(* state of setupRoomDrawing, window.__pendingRoomData and the device      *)
(* list.  Every action is one event handler, run to completion (the page   *)
(* is single threaded).                                                    *)
(*                                                                         *)
(* The sensor statuses of the dashboard (app.js), the founder's data       *)
(* generator and the alerts script are modelled with their own state; an   *)
(* async function of these scripts is one action per stretch between two   *)
(* awaits.                                                                 *)
(***************************************************************************)
EXTENDS Integers, Sequences, FiniteSets, TLC

VARIABLES
    isDashboard,        \* document.getElementById('editFloorBtn') exists
    gridSize,           \* let gridSize
    unassignBinding,    \* the function window.unassignDeviceFromRoom names
    hasApp,             \* app.js is loaded (window.determineRoomStatus is set)
    isDrawingMode,      \* let isDrawingMode
    drawingTool,        \* let drawingTool
    rooms,              \* let rooms (the current floor's rooms array)
    floors,             \* floorPlanData.floors[i].rooms
    currentFloorIndex,  \* floorPlanData.currentFloorIndex (1-based here)
    linePoints,         \* let linePoints
    lineStartPoint,     \* let lineStartPoint
    tempPolyline,       \* let tempPolyline
    tempPolygon,        \* let tempPolygon
    roomStartPoint,     \* setupRoomDrawing: let roomStartPoint
    tempRect,           \* setupRoomDrawing: let tempRect
    pendingRoomData,    \* window.__pendingRoomData
    selectedRoomId,     \* let selectedRoomId
    devices,            \* devicesData
    roomsData,          \* window.roomsData
    clock,              \* Date.now()
    toastShown,         \* message of the toast the last handler showed
    snapToGrid,         \* let snapToGrid
    call,               \* a call of a pure helper: its name and arguments
    ret,                \* the value that call returned, Null before it returns
    roomSizeText,       \* showRoomEditDialog: the "Size:" text of the dialog
    currentTime,            \* app.js: Date.now(), in milliseconds
    sensorStatusTimers,     \* app.js: let sensorStatusTimers
    realtimeSensorRoomId,   \* app.js: let realtimeSensorRoomId
    realtimeSensorListener, \* app.js: realtimeSensorListener is set
    firebaseReady,          \* founder tools: window.rtdb and its functions are set
    isSending,              \* founder tools: let isSending
    updateIntervalId,       \* founder tools: let updateIntervalId
    intervals,              \* founder tools: the interval timers not cleared
    startSendingPc,         \* founder tools: where each call of startSending is
    totalUpdates,           \* founder tools: let totalUpdates
    alertsCollection,       \* alerts: the documents of the Firestore collection
    alertRuns               \* alerts: where each alert-generation run is

vars == << isDashboard, gridSize, unassignBinding, hasApp, isDrawingMode, drawingTool,
           rooms, floors, currentFloorIndex, linePoints, lineStartPoint,
           tempPolyline, tempPolygon, roomStartPoint, tempRect,
           pendingRoomData, selectedRoomId, devices, roomsData, clock,
           toastShown, snapToGrid, call, ret, roomSizeText,
           currentTime, sensorStatusTimers, realtimeSensorRoomId,
           realtimeSensorListener, firebaseReady, isSending, updateIntervalId,
           intervals, startSendingPc, totalUpdates, alertsCollection, alertRuns >>

drawVars == << isDrawingMode, drawingTool, linePoints, lineStartPoint,
               tempPolyline, tempPolygon, roomStartPoint, tempRect >>

lineVars == << linePoints, lineStartPoint, tempPolyline, tempPolygon >>

pageVars == << isDashboard, gridSize, unassignBinding, hasApp, snapToGrid >>

callVars == << call, ret >>

dialogVars == << roomSizeText >>

appVars == << currentTime, sensorStatusTimers, realtimeSensorRoomId,
              realtimeSensorListener >>

alertVars == << alertsCollection, alertRuns >>

founderVars == << firebaseReady, isSending, updateIntervalId, intervals,
                  startSendingPc, totalUpdates >>

(* the state of the scripts the editor's handlers never write *)
otherVars == << appVars, founderVars, alertVars >>

-----------------------------------------------------------------------------
(* Bounds of the model *)

MaxClock == 1           \* pointer events stop once this many rooms were drawn
MaxPoints == 3          \* vertices of an in-progress polygon
MaxFloors == 2          \* floors of the user's floor plan
MaxStarts == 3          \* calls of startSending that pass its first test
MaxUpdates == 2         \* updates made by interval callbacks
MaxAlerts == 3          \* documents in the alerts collection

(* Raw pointer positions (canvas space, before snapping) *)
Clicks == { [x |-> 0, y |-> 0], [x |-> 8, y |-> 0],
            [x |-> 40, y |-> 0], [x |-> 40, y |-> 40] }

Tools == { "rectangle", "line" }

-----------------------------------------------------------------------------
(* Program constants *)

CloseThreshold == 15
MinSeparation == 15
MinRectSize == 20

Null == [null |-> TRUE]     \* null where a point or an object is expected
NoId == -1                  \* null where a room id is expected
NoDevice == "null"          \* null where a device id is expected
NoName == "null"            \* null where a room name is expected
NoToast == "none"
NoText == ""                 \* the dialog was never filled in

-----------------------------------------------------------------------------
(* Pure helpers *)

Abs(n) == IF n < 0 THEN -n ELSE n
Min2_First(a, b) == a

Min2(a, b) == IF a < b THEN a ELSE b

snapToGridCoordinate_Floor(value) ==
    IF ~snapToGrid THEN value
    ELSE (value \div gridSize) * gridSize

snapToGridCoordinate_PlusGrid(value) ==
    IF ~snapToGrid THEN value
    ELSE ((2 * value + gridSize) \div (2 * gridSize)) + gridSize

(* Math.round(v): floor(v + 1/2); for integer value and g this is exact *)
snapToGridCoordinate(value) ==
    IF ~snapToGrid THEN value
    ELSE ((2 * value + gridSize) \div (2 * gridSize)) * gridSize

Snap(p) == [x |-> snapToGridCoordinate(p.x), y |-> snapToGridCoordinate(p.y)]

(* calculateDistance returns the square root of this *)
DistSq(x1, y1, x2, y2) == (x2 - x1) * (x2 - x1) + (y2 - y1) * (y2 - y1)

isPointClose(x1, y1, x2, y2) ==
    DistSq(x1, y1, x2, y2) < CloseThreshold * CloseThreshold

TooCloseToLast_Shorter(lastPoint, x, y) ==
    DistSq(lastPoint.x, lastPoint.y, x, y) < 10 * 10

TooCloseToLast_Never(lastPoint, x, y) == FALSE

TooCloseToLast(lastPoint, x, y) ==
    DistSq(lastPoint.x, lastPoint.y, x, y) < MinSeparation * MinSeparation

RectBigEnough_EitherSide(width, height) ==
    width > MinRectSize \/ height > MinRectSize

RectBigEnough(width, height) == width > MinRectSize /\ height > MinRectSize

EnoughPoints_Two(pts) == Len(pts) >= 2

EnoughPoints(pts) == Len(pts) >= 3

RECURSIVE SeqMin(_), SeqMax(_)
SeqMin(s) == IF Len(s) = 1 THEN s[1] ELSE Min2(s[1], SeqMin(Tail(s)))
SeqMax(s) == IF Len(s) = 1 THEN s[1]
             ELSE LET m == SeqMax(Tail(s)) IN IF s[1] > m THEN s[1] ELSE m

RoomId(t) == t      \* 'room_' + Date.now()

NewRectRoom_WithCorners(start, x, y, width, height) ==
    [ id |-> RoomId(clock),
      x |-> Min2(start.x, x), y |-> Min2(start.y, y),
      width |-> width, height |-> height,
      points |-> << [x |-> start.x, y |-> start.y], [x |-> x, y |-> y] >>,
      name |-> "New Room", status |-> "good", deviceId |-> NoDevice ]

NewRectRoom(start, x, y, width, height) ==
    [ id |-> RoomId(clock),
      x |-> Min2(start.x, x), y |-> Min2(start.y, y),
      width |-> width, height |-> height,
      name |-> "New Room", status |-> "good", deviceId |-> NoDevice ]

NewLineRoom_Closed(pts) ==
    LET closedPoints == Append(pts, pts[1])
        xs == [i \in 1..Len(pts) |-> pts[i].x]
        ys == [i \in 1..Len(pts) |-> pts[i].y]
        minX == SeqMin(xs)  maxX == SeqMax(xs)
        minY == SeqMin(ys)  maxY == SeqMax(ys)
    IN [ id |-> RoomId(clock),
         points |-> closedPoints,
         bbox |-> [ minX |-> minX, maxX |-> maxX, minY |-> minY, maxY |-> maxY,
                    centerX |-> (minX + maxX) \div 2,
                    centerY |-> (minY + maxY) \div 2,
                    width |-> maxX - minX, height |-> maxY - minY ],
         name |-> "New Room", status |-> "good", deviceId |-> NoDevice ]

NewLineRoom(pts) ==
    LET xs == [i \in 1..Len(pts) |-> pts[i].x]
        ys == [i \in 1..Len(pts) |-> pts[i].y]
        minX == SeqMin(xs)  maxX == SeqMax(xs)
        minY == SeqMin(ys)  maxY == SeqMax(ys)
    IN [ id |-> RoomId(clock),
         points |-> [i \in 1..Len(pts) |-> [x |-> pts[i].x, y |-> pts[i].y]],
         bbox |-> [ minX |-> minX, maxX |-> maxX, minY |-> minY, maxY |-> maxY,
                    centerX |-> (minX + maxX) \div 2,
                    centerY |-> (minY + maxY) \div 2,
                    width |-> maxX - minX, height |-> maxY - minY ],
         name |-> "New Room", status |-> "good", deviceId |-> NoDevice ]

(* rooms and floors[currentFloorIndex] are one array object *)
WithRooms(newRooms) ==
    /\ rooms' = newRooms
    /\ floors' = [floors EXCEPT ![currentFloorIndex] = newRooms]

-----------------------------------------------------------------------------
(* Numbers.  Coordinates of stored points are integers; a JavaScript number
   that need not be an integer is kept as the exact fraction n/d in lowest
   terms with d > 0. *)

pixelsPerMeter == 50

RECURSIVE GCD(_, _)
GCD(a, b) == IF b = 0 THEN a ELSE GCD(b, a % b)

Frac(n, d) ==
    LET s == IF d < 0 THEN -1 ELSE 1
        g == GCD(Abs(n), Abs(d))
    IN [n |-> (s * n) \div g, d |-> (s * d) \div g]

Num(i) == [n |-> i, d |-> 1]
Plus(a, b) == Frac(a.n * b.d + b.n * a.d, a.d * b.d)
Minus(a, b) == Frac(a.n * b.d - b.n * a.d, a.d * b.d)
Times(a, b) == Frac(a.n * b.n, a.d * b.d)
Over(a, b) == Frac(a.n * b.d, a.d * b.n)
Less(a, b) == a.n * b.d < b.n * a.d
MathAbs(a) == [n |-> Abs(a.n), d |-> a.d]

(* Math.round(a): floor(a + 1/2) *)
MathRound(a) == (2 * a.n + a.d) \div (2 * a.d)

(* `${v}` for a number v >= 0 with at most two decimals: the shortest
   decimal text, without trailing zeros *)
NumberToString(v) ==
    LET whole == v.n \div v.d
        hundredths == ((v.n % v.d) * 100) \div v.d
    IN IF hundredths = 0 THEN ToString(whole)
       ELSE IF hundredths % 10 = 0
       THEN ToString(whole) \o "." \o ToString(hundredths \div 10)
       ELSE IF hundredths < 10
       THEN ToString(whole) \o ".0" \o ToString(hundredths)
       ELSE ToString(whole) \o "." \o ToString(hundredths)

pixelsToMeters(pixels) == Times(Num(pixels), Frac(1, pixelsPerMeter))

formatMeasurement_OneMeterInCm(meters) ==
    IF ~Less(Num(1), meters)
    THEN NumberToString(Frac(MathRound(Times(meters, Num(1000))), 10)) \o " cm"
    ELSE NumberToString(Frac(MathRound(Times(meters, Num(100))), 100)) \o " m"

formatMeasurement(meters) ==
    IF Less(meters, Num(1))
    THEN NumberToString(Frac(MathRound(Times(meters, Num(1000))), 10)) \o " cm"
    ELSE NumberToString(Frac(MathRound(Times(meters, Num(100))), 100)) \o " m"

-----------------------------------------------------------------------------
(* Polygon geometry.  The helpers take points whose coordinates are
   JavaScript numbers, here exact fractions. *)

NumPoint(p) == [x |-> Num(p.x), y |-> Num(p.y)]
NumPoints(points) == [i \in 1..Len(points) |-> NumPoint(points[i])]

RECURSIVE NumSum(_)
NumSum(s) == IF Len(s) = 0 THEN Num(0) ELSE Plus(s[1], NumSum(Tail(s)))

RECURSIVE MathMin(_), MathMax(_)
MathMin(s) == IF Len(s) = 1 THEN s[1]
              ELSE LET m == MathMin(Tail(s)) IN IF Less(s[1], m) THEN s[1] ELSE m
MathMax(s) == IF Len(s) = 1 THEN s[1]
              ELSE LET m == MathMax(Tail(s)) IN IF Less(m, s[1]) THEN s[1] ELSE m

(* one iteration of the ray-casting loop: edge from points[j] to points[i] *)
EdgeIntersects(x, y, pi, pj) ==
    /\ Less(y, pi.y) # Less(y, pj.y)
    /\ Less(x, Plus(Over(Times(Minus(pj.x, pi.x), Minus(y, pi.y)),
                         Minus(pj.y, pi.y)),
                    pi.x))

RECURSIVE InsideFrom(_, _, _, _, _)
InsideFrom(x, y, points, i, inside) ==
    IF i > Len(points) THEN inside
    ELSE LET j == IF i = 1 THEN Len(points) ELSE i - 1 IN
         InsideFrom(x, y, points, i + 1,
                    IF EdgeIntersects(x, y, points[i], points[j])
                    THEN ~inside ELSE inside)

isPointInPolygon_OpenLoop(x, y, points) == InsideFrom(x, y, points, 2, FALSE)

isPointInPolygon(x, y, points) == InsideFrom(x, y, points, 1, FALSE)

AveragePoint_First(points) == points[1]

(* arithmetic mean of the vertices *)
AveragePoint(points) ==
    [x |-> Over(NumSum([i \in 1..Len(points) |-> points[i].x]), Num(Len(points))),
     y |-> Over(NumSum([i \in 1..Len(points) |-> points[i].y]), Num(Len(points)))]

(* first sample on the line from the bounding-box centre towards the
   centroid (t = 0, 0.1, ..., 1) that is inside, or Null *)
RECURSIVE FirstSampleInside(_, _, _, _)
FirstSampleInside(points, bboxCenter, centroid, k) ==
    IF k > 10 THEN Null
    ELSE LET t == Frac(k, 10)
             testX == Plus(bboxCenter.x,
                           Times(Minus(centroid.x, bboxCenter.x), t))
             testY == Plus(bboxCenter.y,
                           Times(Minus(centroid.y, bboxCenter.y), t))
         IN IF isPointInPolygon(testX, testY, points)
            THEN [x |-> testX, y |-> testY]
            ELSE FirstSampleInside(points, bboxCenter, centroid, k + 1)

(* first edge midpoint that is inside, or Null *)
RECURSIVE FirstMidpointInside(_, _)
FirstMidpointInside(points, i) ==
    IF i > Len(points) THEN Null
    ELSE LET p1 == points[i]
             p2 == points[(i % Len(points)) + 1]
             midX == Over(Plus(p1.x, p2.x), Num(2))
             midY == Over(Plus(p1.y, p2.y), Num(2))
         IN IF isPointInPolygon(midX, midY, points)
            THEN [x |-> midX, y |-> midY]
            ELSE FirstMidpointInside(points, i + 1)

PointTowardsInterior_GiveUp(points, centroid) == centroid

(* the search calculatePolygonCentroid makes when the centroid is outside *)
PointTowardsInterior(points, centroid) ==
    LET xs == [i \in 1..Len(points) |-> points[i].x]
        ys == [i \in 1..Len(points) |-> points[i].y]
        bboxCenter == [x |-> Over(Plus(MathMin(xs), MathMax(xs)), Num(2)),
                       y |-> Over(Plus(MathMin(ys), MathMax(ys)), Num(2))]
        sample == FirstSampleInside(points, bboxCenter, centroid, 0)
        midpoint == FirstMidpointInside(points, 1)
    IN IF sample # Null THEN sample
       ELSE IF isPointInPolygon(bboxCenter.x, bboxCenter.y, points)
       THEN bboxCenter
       ELSE IF midpoint # Null THEN midpoint
       ELSE centroid

(* cross[i] of the shoelace loop over the closed polygon *)
ShoelaceCross(closedPoints) ==
    [i \in 1..(Len(closedPoints) - 1) |->
        Minus(Times(closedPoints[i].x, closedPoints[i + 1].y),
              Times(closedPoints[i + 1].x, closedPoints[i].y))]

ClosedPoints(points) ==
    IF points[1] # points[Len(points)] THEN Append(points, points[1]) ELSE points

(* area = area / 2: the signed area *)
SignedArea(points) == Over(NumSum(ShoelaceCross(ClosedPoints(points))), Num(2))

calculatePolygonCentroid_FirstVertex(points) == points[1]

calculatePolygonCentroid(points) ==
    IF Len(points) < 3
    THEN IF Len(points) > 0 THEN AveragePoint(points)
         ELSE [x |-> Num(0), y |-> Num(0)]
    ELSE LET closedPoints == ClosedPoints(points)
             cross == ShoelaceCross(closedPoints)
             sumX == NumSum([i \in 1..Len(cross) |->
                        Times(Plus(closedPoints[i].x, closedPoints[i + 1].x),
                              cross[i])])
             sumY == NumSum([i \in 1..Len(cross) |->
                        Times(Plus(closedPoints[i].y, closedPoints[i + 1].y),
                              cross[i])])
             area == SignedArea(points)
         IN IF Less(MathAbs(area), Frac(1, 1000))
            THEN AveragePoint(points)
            ELSE LET centroid == [x |-> Over(sumX, Times(Num(6), area)),
                                  y |-> Over(sumY, Times(Num(6), area))]
                 IN IF ~isPointInPolygon(centroid.x, centroid.y, points)
                    THEN PointTowardsInterior(points, centroid)
                    ELSE centroid

-----------------------------------------------------------------------------
(* Devices (devices.js) and sensor data (window.roomsData) *)

DeviceIds == { "aeronexa-001", "aeronexa-002" }

SensorKeys == { "dust", "co2", "temperature", "humidity", "pressure",
                "gas", "smoke" }
KeyOrder == << "dust", "co2", "temperature", "humidity", "pressure",
               "gas", "smoke" >>

(* a sensors object with nCrit critical and nWarn warning sensors *)
MkSensors(nCrit, nWarn) ==
    [k \in SensorKeys |->
        LET i == CHOOSE j \in 1..Len(KeyOrder) : KeyOrder[j] = k
        IN [status |-> IF i <= nCrit THEN "critical"
                       ELSE IF i <= nCrit + nWarn THEN "warning"
                       ELSE "normal"]]

Readings == { MkSensors(0, 0), MkSensors(0, 1), MkSensors(1, 0) }

CountStatus(sensors, st) ==
    Cardinality({k \in DOMAIN sensors : sensors[k].status = st})

(* app.js determineRoomStatus *)
determineRoomStatus(sensors) ==
    LET criticalCount == CountStatus(sensors, "critical")
        warningCount == CountStatus(sensors, "warning")
    IN IF criticalCount >= 2 THEN "danger"
       ELSE IF warningCount >= 5 THEN "danger"
       ELSE IF criticalCount >= 1 \/ warningCount >= 2 THEN "warning"
       ELSE "good"

(* floor-plan-editor-v2.js determineRoomStatusFromApp; app: app.js has
   set window.determineRoomStatus *)
determineRoomStatusFromApp(app, sensors) ==
    IF app THEN determineRoomStatus(sensors)
    ELSE LET criticalCount == CountStatus(sensors, "critical")
             warningCount == CountStatus(sensors, "warning")
         IN IF criticalCount > 0 THEN "danger"
            ELSE IF warningCount >= 4 THEN "danger"
            ELSE IF warningCount >= 1 THEN "warning"
            ELSE "good"

ToLower(name) ==
    CASE name = "Lab" -> "lab"
      [] name = "LAB" -> "lab"
      [] name = "New Room" -> "new room"
      [] name = "Meeting Room A" -> "meeting room a"
      [] OTHER -> name

FirstIndex(s, P(_)) ==
    IF \E i \in 1..Len(s) : P(s[i])
    THEN CHOOSE i \in 1..Len(s) : P(s[i]) /\ \A j \in 1..(i - 1) : ~P(s[j])
    ELSE 0

(* index into rd of the entry findRoomInRoomsData returns, 0 for null *)
findRoomInRoomsData(rd, rms, roomName, roomId) ==
    IF Len(rd) = 0 THEN 0
    ELSE LET exact == FirstIndex(rd, LAMBDA r : r.name = roomName)
             nocase == FirstIndex(rd, LAMBDA r : ToLower(r.name) = ToLower(roomName))
             roomIndex == FirstIndex(rms, LAMBDA r : r.id = roomId)
         IN IF exact # 0 THEN exact
            ELSE IF nocase # 0 THEN nocase
            ELSE IF roomIndex # 0 /\ roomIndex <= Len(rd) THEN roomIndex
            ELSE IF roomIndex # 0 THEN ((roomIndex - 1) % Len(rd)) + 1
            ELSE 1

isDeviceAssigned(devs, deviceId) ==
    /\ deviceId \in DOMAIN devs
    /\ devs[deviceId].assignedToRoom # NoId

(* devices.js assignDeviceToRoom: the result and the device list after it *)
assignDeviceToRoom(devs, deviceId, roomId, roomName) ==
    IF deviceId \notin DOMAIN devs
    THEN [success |-> FALSE, message |-> "Device not found", devices |-> devs]
    ELSE IF devs[deviceId].assignedToRoom # NoId
            /\ devs[deviceId].assignedToRoom # roomId
    THEN [success |-> FALSE, message |-> "Device is already assigned",
          devices |-> devs]
    ELSE [success |-> TRUE, message |-> "Device assigned successfully",
          devices |-> [devs EXCEPT ![deviceId].assignedToRoom = roomId,
                                   ![deviceId].assignedToRoomName = roomName]]

(* devices.js unassignDeviceFromRoom(deviceId) *)
devicesUnassign(devs, deviceId) ==
    IF deviceId \notin DOMAIN devs THEN devs
    ELSE [devs EXCEPT ![deviceId].assignedToRoom = NoId,
                      ![deviceId].assignedToRoomName = NoName]

(* window.unassignDeviceFromRoom(arg) as the editor calls it with a device
   id.  Bound to the editor's own unassignDeviceFromRoom(roomId) the
   argument is looked up among the room ids, none matches a device id, and
   the call only shows 'Room not found'. *)
windowUnassign(binding, devs, deviceId) ==
    IF binding = "devices" THEN devicesUnassign(devs, deviceId) ELSE devs

syncDeviceSensorDataToRoom(rd, rms, room, devs) ==
    IF room.deviceId = NoDevice THEN rd
    ELSE IF room.deviceId \notin DOMAIN devs THEN rd
    ELSE LET i == findRoomInRoomsData(rd, rms, room.name, room.id)
             sensors == devs[room.deviceId].sensors
         IN IF i = 0
            THEN Append(rd, [id |-> Len(rd) + 1, name |-> room.name,
                             sensors |-> sensors])
            ELSE [rd EXCEPT ![i].sensors = sensors]

updateRoomStatus_WritesName(st, k, devs, app) ==
    LET room == st.rooms[k] IN
    IF room.deviceId = NoDevice
    THEN [st EXCEPT !.rooms[k].status = "unassigned"]
    ELSE LET rd == syncDeviceSensorDataToRoom(st.roomsData, st.rooms, room, devs)
             i == findRoomInRoomsData(rd, st.rooms, room.name, room.id)
         IN IF Len(rd) = 0 \/ i = 0
            THEN [rooms |-> [st.rooms EXCEPT ![k].status = "unassigned"],
                  roomsData |-> rd]
            ELSE [rooms |-> [st.rooms EXCEPT ![k].name =
                                determineRoomStatusFromApp(app, rd[i].sensors)],
                  roomsData |-> rd]

(* updateRoomStatus(rooms[k]) on the pair st = [rooms, roomsData] *)
updateRoomStatus(st, k, devs, app) ==
    LET room == st.rooms[k] IN
    IF room.deviceId = NoDevice
    THEN [st EXCEPT !.rooms[k].status = "unassigned"]
    ELSE LET rd == syncDeviceSensorDataToRoom(st.roomsData, st.rooms, room, devs)
             i == findRoomInRoomsData(rd, st.rooms, room.name, room.id)
         IN IF Len(rd) = 0 \/ i = 0
            THEN [rooms |-> [st.rooms EXCEPT ![k].status = "unassigned"],
                  roomsData |-> rd]
            ELSE [rooms |-> [st.rooms EXCEPT ![k].status =
                                determineRoomStatusFromApp(app, rd[i].sensors)],
                  roomsData |-> rd]

(* renderRoom: on the dashboard it refreshes the status before drawing *)
renderRoom(st, k, devs, app, dashboard) ==
    IF dashboard THEN updateRoomStatus(st, k, devs, app) ELSE st

RECURSIVE UpdateAndRenderFrom(_, _, _, _, _)
UpdateAndRenderFrom(st, k, devs, app, dashboard) ==
    IF k > Len(st.rooms) THEN st
    ELSE UpdateAndRenderFrom(
            renderRoom(updateRoomStatus(st, k, devs, app), k, devs, app,
                       dashboard),
            k + 1, devs, app, dashboard)

(* updateAllRoomStatuses / refreshAllRoomStatuses: dashboard only *)
updateAllRoomStatuses(st, devs, app, dashboard) ==
    IF ~dashboard THEN st ELSE UpdateAndRenderFrom(st, 1, devs, app, dashboard)

RECURSIVE SyncRoomsOfDeviceFrom(_, _, _, _)
SyncRoomsOfDeviceFrom(st, k, deviceId, devs) ==
    IF k > Len(st.rooms) THEN st
    ELSE SyncRoomsOfDeviceFrom(
            IF st.rooms[k].deviceId = deviceId
            THEN [st EXCEPT !.roomsData =
                     syncDeviceSensorDataToRoom(st.roomsData, st.rooms,
                                                st.rooms[k], devs)]
            ELSE st,
            k + 1, deviceId, devs)

syncDeviceToAllRooms(st, deviceId, devs, app, dashboard) ==
    updateAllRoomStatuses(SyncRoomsOfDeviceFrom(st, 1, deviceId, devs),
                          devs, app, dashboard)

(* renderFloorPlan: updateRoomStatus and renderRoom for every room *)
RECURSIVE renderFloorPlanFrom(_, _, _, _, _)
renderFloorPlanFrom(st, k, devs, app, dashboard) ==
    IF k > Len(st.rooms) THEN st
    ELSE renderFloorPlanFrom(
            renderRoom(IF dashboard THEN updateRoomStatus(st, k, devs, app)
                       ELSE st, k, devs, app, dashboard),
            k + 1, devs, app, dashboard)

RECURSIVE restoreDeviceAssignmentsFrom(_, _, _)
restoreDeviceAssignmentsFrom(devs, rms, k) ==
    IF k > Len(rms) THEN devs
    ELSE restoreDeviceAssignmentsFrom(
            IF rms[k].deviceId # NoDevice /\ rms[k].deviceId \in DOMAIN devs
            THEN assignDeviceToRoom(devs, rms[k].deviceId, rms[k].id,
                                    rms[k].name).devices
            ELSE devs,
            rms, k + 1)

RECURSIVE SyncAllFrom(_, _, _)
SyncAllFrom(st, k, devs) ==
    IF k > Len(st.rooms) THEN st
    ELSE SyncAllFrom([st EXCEPT !.roomsData =
                         syncDeviceSensorDataToRoom(st.roomsData, st.rooms,
                                                    st.rooms[k], devs)],
                     k + 1, devs)

RemoveAt(s, i) == [j \in 1..(Len(s) - 1) |-> IF j < i THEN s[j] ELSE s[j + 1]]

-----------------------------------------------------------------------------
(* Initial state: the editor or dashboard page after initFloorPlanEditor *)

AppRoomsData ==
    << [id |-> 1, name |-> "Meeting Room A", sensors |-> MkSensors(0, 0)] >>

LoadedDevices ==
    [d \in DeviceIds |-> [assignedToRoom |-> NoId, assignedToRoomName |-> NoName,
                          sensors |-> MkSensors(0, 0)]]

(* Floor plans stored by an earlier session of the editor *)
StoredRect ==
    [ id |-> 101, x |-> 0, y |-> 0, width |-> 40, height |-> 40,
      name |-> "Lab", status |-> "good", deviceId |-> "aeronexa-001" ]

StoredPolygon ==
    [ id |-> 102,
      points |-> << [x |-> 0, y |-> 0], [x |-> 40, y |-> 0], [x |-> 40, y |-> 40] >>,
      bbox |-> [ minX |-> 0, maxX |-> 40, minY |-> 0, maxY |-> 40,
                 centerX |-> 20, centerY |-> 20, width |-> 40, height |-> 40 ],
      name |-> "New Room", status |-> "good", deviceId |-> NoDevice ]

StoredFloors == << << StoredRect, StoredPolygon >>, << >> >>

(* a room drawn and named in an earlier session, no device assigned *)
EarlierRoom ==
    [ id |-> 0, x |-> 0, y |-> 0, width |-> 40, height |-> 40,
      name |-> "Hall", status |-> "good", deviceId |-> NoDevice ]

(* app.js as loaded: no status tracked yet, room 1 is the realtime room and
   its listener is not set up *)
InitAppIdle ==
    /\ currentTime = 0
    /\ sensorStatusTimers = << >>
    /\ realtimeSensorRoomId = 1
    /\ realtimeSensorListener = FALSE

NoInterval == 0      \* updateIntervalId = null

(* the founder tools page as loaded *)
InitFounderIdle ==
    /\ firebaseReady = FALSE
    /\ isSending = FALSE
    /\ updateIntervalId = NoInterval
    /\ intervals = {}
    /\ startSendingPc = [i \in 1..MaxStarts |-> "notCalled"]
    /\ totalUpdates = 0

(* the two timers of initializeAlerts that generate alerts *)
Runs == { "initial", "periodic" }

(* the alerts page as loaded, the collection empty *)
InitAlertsIdle ==
    /\ alertsCollection = << >>
    /\ alertRuns = [r \in Runs |-> [pc |-> "idle", pending |-> << >>]]

InitOtherPagesIdle ==
    /\ InitAppIdle
    /\ InitFounderIdle
    /\ InitAlertsIdle

(* no helper call is being observed *)
InitNoCall ==
    /\ call = Null
    /\ ret = Null

InitDrawingIdle ==
    /\ isDrawingMode = FALSE
    /\ drawingTool = "rectangle"
    /\ linePoints = << >>
    /\ lineStartPoint = Null
    /\ tempPolyline = "null"
    /\ tempPolygon = "null"
    /\ roomStartPoint = Null
    /\ tempRect = "null"
    /\ pendingRoomData = Null
    /\ selectedRoomId = NoId
    /\ clock = 1
    /\ toastShown = NoToast
    /\ roomSizeText = NoText

(* The editor page after initFloorPlanEditor: one floor, loaded, holding
   nothing or one room of an earlier session; desktop or mobile grid *)
Init ==
    /\ snapToGrid = TRUE
    /\ InitNoCall
    /\ InitOtherPagesIdle
    /\ isDashboard = FALSE
    /\ gridSize \in {10, 20}
    /\ unassignBinding = "devices"
    /\ hasApp = FALSE
    /\ rooms \in { << >>, << EarlierRoom >> }
    /\ floors = << rooms >>
    /\ currentFloorIndex = 1
    /\ devices = LoadedDevices
    /\ roomsData = << >>
    /\ InitDrawingIdle

-----------------------------------------------------------------------------
(* Drawing handlers *)

resetLineDrawing_KeepPreview ==
    /\ linePoints' = << >>
    /\ lineStartPoint' = Null
    /\ UNCHANGED << tempPolyline, tempPolygon >>

resetLineDrawing ==
    /\ linePoints' = << >>
    /\ lineStartPoint' = Null
    /\ tempPolyline' = "null"
    /\ tempPolygon' = "null"

showRoomNameInputModal(room) ==
    pendingRoomData' = [roomId |-> room.id, room |-> room]

completeLineRoom_DiscardOnReject ==
    IF ~EnoughPoints(linePoints)
    THEN /\ toastShown' = "Need at least 3 points to create a room"
         /\ resetLineDrawing
         /\ UNCHANGED << rooms, floors, pendingRoomData, clock >>
    ELSE LET newRoom == NewLineRoom(linePoints) IN
         /\ WithRooms(Append(rooms, newRoom))
         /\ resetLineDrawing
         /\ showRoomNameInputModal(newRoom)
         /\ clock' = clock + 1
         /\ toastShown' = NoToast

completeLineRoom ==
    IF ~EnoughPoints(linePoints)
    THEN /\ toastShown' = "Need at least 3 points to create a room"
         /\ UNCHANGED << rooms, floors, linePoints, lineStartPoint,
                         tempPolyline, tempPolygon, pendingRoomData, clock >>
    ELSE LET newRoom == NewLineRoom(linePoints) IN
         /\ WithRooms(Append(rooms, newRoom))
         /\ resetLineDrawing
         /\ showRoomNameInputModal(newRoom)
         /\ clock' = clock + 1
         /\ toastShown' = NoToast

StartNewPolygon_StartAtOrigin(p) ==
    /\ linePoints' = << p >>
    /\ lineStartPoint' = [x |-> 0, y |-> 0]
    /\ tempPolyline' = "attached"
    /\ tempPolygon' = "attached"

(* mousedown, line tool, no vertex yet: "Start new polygon" *)
StartNewPolygon(p) ==
    /\ linePoints' = << p >>
    /\ lineStartPoint' = p
    /\ tempPolyline' = "attached"
    /\ tempPolygon' = "attached"

MouseDown(raw) ==
    LET p == Snap(raw) IN
    /\ ~isDashboard
    /\ clock <= MaxClock
    /\ IF ~isDrawingMode
       THEN /\ toastShown' = NoToast
            /\ UNCHANGED << rooms, floors, linePoints, lineStartPoint,
                            tempPolyline, tempPolygon, roomStartPoint,
                            tempRect, pendingRoomData, clock >>
       ELSE IF drawingTool = "rectangle"
       THEN /\ IF roomStartPoint = Null
               THEN roomStartPoint' = p /\ tempRect' = "attached"
               ELSE UNCHANGED << roomStartPoint, tempRect >>
            /\ toastShown' = NoToast
            /\ UNCHANGED << rooms, floors, linePoints, lineStartPoint,
                            tempPolyline, tempPolygon, pendingRoomData, clock >>
       ELSE IF drawingTool = "line"
       THEN /\ UNCHANGED << roomStartPoint, tempRect >>
            /\ IF Len(linePoints) = 0
               THEN /\ StartNewPolygon(p)
                    /\ toastShown' = NoToast
                    /\ UNCHANGED << rooms, floors, pendingRoomData, clock >>
               ELSE IF isPointClose(p.x, p.y, lineStartPoint.x, lineStartPoint.y)
               THEN completeLineRoom
               ELSE /\ IF TooCloseToLast(linePoints[Len(linePoints)], p.x, p.y)
                       THEN UNCHANGED linePoints
                       ELSE /\ Len(linePoints) < MaxPoints
                            /\ linePoints' = Append(linePoints, p)
                    /\ toastShown' = NoToast
                    /\ UNCHANGED << rooms, floors, lineStartPoint, tempPolyline,
                                    tempPolygon, pendingRoomData, clock >>
       ELSE /\ toastShown' = NoToast
            /\ UNCHANGED << rooms, floors, linePoints, lineStartPoint,
                            tempPolyline, tempPolygon, roomStartPoint,
                            tempRect, pendingRoomData, clock >>
    /\ UNCHANGED << pageVars, otherVars, callVars, dialogVars, isDrawingMode, drawingTool, currentFloorIndex,
                    selectedRoomId, devices, roomsData >>

MouseUp(raw) ==
    LET p == Snap(raw) IN
    /\ ~isDashboard
    /\ clock <= MaxClock
    /\ IF isDrawingMode /\ drawingTool = "rectangle"
          /\ roomStartPoint # Null /\ tempRect # "null"
       THEN LET width == Abs(p.x - roomStartPoint.x)
                height == Abs(p.y - roomStartPoint.y)
                newRoom == NewRectRoom(roomStartPoint, p.x, p.y, width, height)
            IN /\ IF RectBigEnough(width, height)
                  THEN /\ WithRooms(Append(rooms, newRoom))
                       /\ showRoomNameInputModal(newRoom)
                       /\ clock' = clock + 1
                  ELSE UNCHANGED << rooms, floors, pendingRoomData, clock >>
               /\ tempRect' = "null"
               /\ roomStartPoint' = Null
       ELSE UNCHANGED << rooms, floors, pendingRoomData, clock,
                         tempRect, roomStartPoint >>
    /\ toastShown' = NoToast
    /\ UNCHANGED << pageVars, otherVars, callVars, dialogVars, isDrawingMode, drawingTool, currentFloorIndex,
                    linePoints, lineStartPoint, tempPolyline, tempPolygon,
                    selectedRoomId, devices, roomsData >>

KeyEscape ==
    /\ ~isDashboard
    /\ IF isDrawingMode /\ drawingTool = "line" /\ Len(linePoints) > 0
       THEN resetLineDrawing /\ toastShown' = "Line drawing cancelled"
       ELSE /\ toastShown' = NoToast
            /\ UNCHANGED << linePoints, lineStartPoint, tempPolyline, tempPolygon >>
    /\ UNCHANGED << pageVars, otherVars, callVars, dialogVars, isDrawingMode, drawingTool, rooms, floors,
                    currentFloorIndex, roomStartPoint, tempRect,
                    pendingRoomData, selectedRoomId, devices, roomsData, clock >>

toggleDrawingMode ==
    /\ ~isDashboard
    /\ isDrawingMode' = ~isDrawingMode
    /\ IF isDrawingMode
       THEN /\ resetLineDrawing
            /\ tempRect' = IF tempRect = "attached" THEN "detached" ELSE tempRect
       ELSE UNCHANGED << linePoints, lineStartPoint, tempPolyline,
                         tempPolygon, tempRect >>
    /\ toastShown' = NoToast
    /\ UNCHANGED << pageVars, otherVars, callVars, dialogVars, drawingTool, rooms, floors, currentFloorIndex,
                    roomStartPoint, pendingRoomData, selectedRoomId, devices,
                    roomsData, clock >>

setDrawingTool(tool) ==
    /\ ~isDashboard
    /\ drawingTool' = tool
    /\ IF tool # "line"
       THEN resetLineDrawing
       ELSE UNCHANGED << linePoints, lineStartPoint, tempPolyline, tempPolygon >>
    /\ toastShown' = NoToast
    /\ UNCHANGED << pageVars, otherVars, callVars, dialogVars, isDrawingMode, rooms, floors, currentFloorIndex,
                    roomStartPoint, tempRect, pendingRoomData, selectedRoomId,
                    devices, roomsData, clock >>

-----------------------------------------------------------------------------
(* The room name prompt *)

RenameIn(rms, roomId, newName) ==
    [i \in 1..Len(rms) |->
        IF rms[i].id = roomId THEN [rms[i] EXCEPT !.name = newName] ELSE rms[i]]

HasRoom(rms, roomId) == \E i \in 1..Len(rms) : rms[i].id = roomId

Names == { "", "Lab" }

saveRoomNameInput(newName) ==
    /\ ~isDashboard
    /\ pendingRoomData # Null
    /\ IF newName = ""
       THEN /\ toastShown' = "Room name cannot be empty"
            /\ UNCHANGED << rooms, floors, pendingRoomData >>
       ELSE LET roomId == pendingRoomData.roomId
                renamedFloors == [f \in 1..Len(floors) |->
                                     RenameIn(floors[f], roomId, newName)]
                renamed == RenameIn(rooms, roomId, newName)
                roomToUpdate == [pendingRoomData.room EXCEPT !.name = newName]
                newRooms == IF HasRoom(renamed, roomId) THEN renamed
                            ELSE Append(renamed, roomToUpdate)
            IN /\ rooms' = newRooms
               /\ floors' = [renamedFloors EXCEPT ![currentFloorIndex] = newRooms]
               /\ pendingRoomData' = Null
               /\ toastShown' = NoToast
    /\ UNCHANGED << pageVars, otherVars, callVars, dialogVars, drawVars, currentFloorIndex, selectedRoomId,
                    devices, roomsData, clock >>

closeRoomNameInputModal ==
    /\ ~isDashboard
    /\ pendingRoomData # Null
    /\ LET roomIndex == FirstIndex(rooms, LAMBDA r : r.id = pendingRoomData.roomId)
       IN IF roomIndex # 0
          THEN WithRooms(RemoveAt(rooms, roomIndex))
          ELSE UNCHANGED << rooms, floors >>
    /\ pendingRoomData' = Null
    /\ toastShown' = NoToast
    /\ UNCHANGED << pageVars, otherVars, callVars, dialogVars, drawVars, currentFloorIndex, selectedRoomId,
                    devices, roomsData, clock >>

-----------------------------------------------------------------------------
(* Floors *)

loadFloorPlan(index) ==
    /\ index \in 1..Len(floors)
    /\ LET loaded == floors[index]
           restored == restoreDeviceAssignmentsFrom(devices, loaded, 1)
           synced == SyncAllFrom([rooms |-> loaded, roomsData |-> roomsData],
                                 1, restored)
           rendered == renderFloorPlanFrom(synced, 1, restored, hasApp, isDashboard)
       IN /\ currentFloorIndex' = index
          /\ rooms' = rendered.rooms
          /\ floors' = [floors EXCEPT ![index] = rendered.rooms]
          /\ roomsData' = rendered.roomsData
          /\ devices' = restored
    /\ toastShown' = NoToast
    /\ UNCHANGED << pageVars, otherVars, callVars, dialogVars, drawVars, pendingRoomData, selectedRoomId, clock >>

-----------------------------------------------------------------------------
(* The room edit dialog (editor page, outside drawing mode) *)

SizeText_HeightFirst(width, height) ==
    formatMeasurement(pixelsToMeters(height)) \o " × "
        \o formatMeasurement(pixelsToMeters(width))

(* the room size the dialog shows, rectangle or polygon *)
SizeText(width, height) ==
    formatMeasurement(pixelsToMeters(width)) \o " × "
        \o formatMeasurement(pixelsToMeters(height))

RoomSizeTextOf(room) ==
    IF "width" \in DOMAIN room /\ room.width # 0 /\ room.height # 0
    THEN SizeText(room.width, room.height)
    ELSE IF "bbox" \in DOMAIN room /\ room.bbox.width # 0 /\ room.bbox.height # 0
    THEN SizeText(room.bbox.width, room.bbox.height)
    ELSE IF "points" \in DOMAIN room /\ Len(room.points) >= 3
    THEN LET xs == [i \in 1..Len(room.points) |-> room.points[i].x]
             ys == [i \in 1..Len(room.points) |-> room.points[i].y]
         IN SizeText(SeqMax(xs) - SeqMin(xs), SeqMax(ys) - SeqMin(ys))
    ELSE "N/A"

showRoomEditDialog(k) ==
    /\ ~isDashboard
    /\ ~isDrawingMode
    /\ k \in 1..Len(rooms)
    /\ selectedRoomId' = rooms[k].id
    /\ roomSizeText' = RoomSizeTextOf(rooms[k])
    /\ toastShown' = NoToast
    /\ UNCHANGED << pageVars, otherVars, callVars, drawVars, rooms, floors, currentFloorIndex,
                    pendingRoomData, devices, roomsData, clock >>

closeRoomEditModal ==
    /\ ~isDashboard
    /\ selectedRoomId # NoId
    /\ selectedRoomId' = NoId
    /\ toastShown' = NoToast
    /\ UNCHANGED << pageVars, otherVars, callVars, dialogVars, drawVars, rooms, floors, currentFloorIndex,
                    pendingRoomData, devices, roomsData, clock >>

SyncPending(newRooms) ==
    IF pendingRoomData # Null /\ HasRoom(newRooms, pendingRoomData.roomId)
    THEN [pendingRoomData EXCEPT !.room =
             newRooms[FirstIndex(newRooms, LAMBDA r : r.id = pendingRoomData.roomId)]]
    ELSE pendingRoomData

deleteRoom ==
    /\ ~isDashboard
    /\ selectedRoomId # NoId
    /\ LET roomIndex == FirstIndex(rooms, LAMBDA r : r.id = selectedRoomId)
       IN IF roomIndex # 0
          THEN /\ devices' = IF rooms[roomIndex].deviceId # NoDevice
                             THEN windowUnassign(unassignBinding, devices,
                                                 rooms[roomIndex].deviceId)
                             ELSE devices
               /\ WithRooms(RemoveAt(rooms, roomIndex))
               /\ toastShown' = "Room deleted successfully"
          ELSE /\ toastShown' = NoToast
               /\ UNCHANGED << devices, rooms, floors >>
    /\ selectedRoomId' = NoId
    /\ UNCHANGED << pageVars, otherVars, callVars, dialogVars, drawVars, currentFloorIndex, pendingRoomData,
                    roomsData, clock >>

DeviceChoices == DeviceIds \cup { NoDevice }

selectDeviceFromDropdown(deviceId) ==
    /\ ~isDashboard
    /\ selectedRoomId # NoId
    /\ LET k == FirstIndex(rooms, LAMBDA r : r.id = selectedRoomId) IN
       IF k = 0
       THEN /\ toastShown' = "Room not found"
            /\ UNCHANGED << rooms, floors, devices, roomsData, pendingRoomData >>
       ELSE LET room == rooms[k] IN
       IF deviceId = NoDevice
       THEN IF room.deviceId = NoDevice
            THEN /\ toastShown' = "No device assigned to this room"
                 /\ UNCHANGED << rooms, floors, devices, roomsData, pendingRoomData >>
            ELSE LET newRooms == [rooms EXCEPT ![k].deviceId = NoDevice] IN
                 /\ devices' = windowUnassign(unassignBinding, devices, room.deviceId)
                 /\ WithRooms(newRooms)
                 /\ pendingRoomData' = SyncPending(newRooms)
                 /\ toastShown' = "Device unassigned from room"
                 /\ UNCHANGED roomsData
       ELSE IF isDeviceAssigned(devices, deviceId)
               /\ devices[deviceId].assignedToRoom # selectedRoomId
       THEN /\ toastShown' = "Device is already assigned"
            /\ UNCHANGED << rooms, floors, devices, roomsData, pendingRoomData >>
       ELSE LET unassigned == IF room.deviceId # NoDevice /\ room.deviceId # deviceId
                              THEN windowUnassign(unassignBinding, devices,
                                                  room.deviceId)
                              ELSE devices
                result == assignDeviceToRoom(unassigned, deviceId, room.id,
                                             room.name)
            IN IF result.success
               THEN LET assigned == [rooms EXCEPT ![k].deviceId = deviceId]
                        synced == [rooms |-> assigned,
                                   roomsData |-> syncDeviceSensorDataToRoom(
                                       roomsData, assigned, assigned[k],
                                       result.devices)]
                        st == renderRoom(
                                  updateRoomStatus(synced, k, result.devices, hasApp),
                                  k, result.devices, hasApp, isDashboard)
                    IN /\ devices' = result.devices
                       /\ WithRooms(st.rooms)
                       /\ roomsData' = st.roomsData
                       /\ pendingRoomData' = SyncPending(st.rooms)
                       /\ toastShown' = "Device assigned"
               ELSE /\ devices' = unassigned
                    /\ toastShown' = result.message
                    /\ UNCHANGED << rooms, floors, roomsData, pendingRoomData >>
    /\ UNCHANGED << pageVars, otherVars, callVars, dialogVars, drawVars, currentFloorIndex, selectedRoomId, clock >>

-----------------------------------------------------------------------------
(* Sensor-driven updates *)

ApplySensorUpdate(st) ==
    /\ rooms' = st.rooms
    /\ floors' = IF currentFloorIndex \in 1..Len(floors)
                 THEN [floors EXCEPT ![currentFloorIndex] = st.rooms]
                 ELSE floors
    /\ roomsData' = st.roomsData
    /\ pendingRoomData' = SyncPending(st.rooms)
    /\ toastShown' = NoToast

Here == [rooms |-> rooms, roomsData |-> roomsData]

(* app.js: the realtime listener of setupDeviceToRoomSync stores the new
   reading of a device, then calls syncDeviceToAllRooms for every device of
   the snapshot and updateAllRoomStatuses *)
RECURSIVE SyncEveryDevice(_, _, _)
SyncEveryDevice(st, ids, devs) ==
    IF ids = {} THEN st
    ELSE LET d == CHOOSE e \in ids : TRUE
         IN SyncEveryDevice(syncDeviceToAllRooms(st, d, devs, hasApp, isDashboard),
                            ids \ {d}, devs)

DeviceDataChanged(deviceId, reading) ==
    /\ hasApp
    /\ deviceId \in DOMAIN devices
    /\ LET devs == [devices EXCEPT ![deviceId].sensors = reading]
       IN /\ devices' = devs
          /\ ApplySensorUpdate(
                 updateAllRoomStatuses(SyncEveryDevice(Here, DOMAIN devs, devs),
                                       devs, hasApp, isDashboard))
    /\ UNCHANGED << pageVars, otherVars, callVars, dialogVars, drawVars, currentFloorIndex, selectedRoomId, clock >>

(* app.js calls window.updateAllRoomStatuses after each sensor update *)
UpdateAllRoomStatuses ==
    /\ hasApp
    /\ ApplySensorUpdate(updateAllRoomStatuses(Here, devices, hasApp, isDashboard))
    /\ UNCHANGED << pageVars, otherVars, callVars, dialogVars, drawVars, currentFloorIndex, selectedRoomId,
                    devices, clock >>

RefreshAllRoomStatuses ==
    /\ isDashboard
    /\ ApplySensorUpdate(updateAllRoomStatuses(Here, devices, hasApp, isDashboard))
    /\ UNCHANGED << pageVars, otherVars, callVars, dialogVars, drawVars, currentFloorIndex, selectedRoomId,
                    devices, clock >>

-----------------------------------------------------------------------------

Next ==
    \/ \E raw \in Clicks : MouseDown(raw)
    \/ \E raw \in Clicks : MouseUp(raw)
    \/ KeyEscape
    \/ toggleDrawingMode
    \/ \E tool \in Tools : setDrawingTool(tool)
    \/ \E newName \in Names : saveRoomNameInput(newName)
    \/ closeRoomNameInputModal
    \/ \E index \in 1..Len(floors) : loadFloorPlan(index)

Spec == Init /\ [][Next]_vars

-----------------------------------------------------------------------------
(* The pages with stored floor plans and devices: the dashboard, or the
   editor outside drawing.  No floor is loaded yet. *)

InitRooms ==
    /\ snapToGrid = TRUE
    /\ InitNoCall
    /\ InitOtherPagesIdle
    /\ isDashboard \in BOOLEAN
    /\ gridSize = 20
    /\ unassignBinding \in { "devices", "editor" }
    /\ hasApp \in BOOLEAN
    /\ isDashboard => hasApp
    /\ rooms = << >>
    /\ floors = StoredFloors
    /\ currentFloorIndex = 0
    /\ devices = LoadedDevices
    /\ roomsData = IF hasApp THEN AppRoomsData ELSE << >>
    /\ InitDrawingIdle

NextRooms ==
    \/ \E index \in 1..Len(floors) : loadFloorPlan(index)
    \/ \E k \in 1..Len(rooms) : showRoomEditDialog(k)
    \/ closeRoomEditModal
    \/ deleteRoom
    \/ \E deviceId \in DeviceChoices : selectDeviceFromDropdown(deviceId)
    \/ \E deviceId \in DeviceIds, reading \in Readings :
           DeviceDataChanged(deviceId, reading)
    \/ UpdateAllRoomStatuses
    \/ RefreshAllRoomStatuses

SpecRooms == InitRooms /\ [][NextRooms]_vars

-----------------------------------------------------------------------------
(* The same pages with the device list following the realtime database *)

(* devices.js: the onValue callback of setupRealtimeDeviceListeners with a
   snapshot holding the devices ids, every one with the same reading *)
DevicesSnapshot(ids, reading) ==
    /\ ids # {}
    /\ devices' = [d \in ids |->
                     IF d \in DOMAIN devices
                     THEN [devices[d] EXCEPT !.sensors = reading]
                     ELSE [assignedToRoom |-> NoId, assignedToRoomName |-> NoName,
                           sensors |-> reading]]
    /\ toastShown' = NoToast
    /\ UNCHANGED << pageVars, otherVars, callVars, dialogVars, drawVars, rooms, floors,
                    currentFloorIndex, pendingRoomData, selectedRoomId,
                    roomsData, clock >>

NextDevices ==
    \/ \E index \in 1..Len(floors) : loadFloorPlan(index)
    \/ \E k \in 1..Len(rooms) : showRoomEditDialog(k)
    \/ closeRoomEditModal
    \/ deleteRoom
    \/ \E deviceId \in DeviceChoices : selectDeviceFromDropdown(deviceId)
    \/ \E ids \in SUBSET DeviceIds : DevicesSnapshot(ids, MkSensors(0, 0))

SpecDevices == InitRooms /\ [][NextDevices]_vars

(* The editor page with an empty floor, and the pointer positions of two
   drawings: the rectangle from (100,100) to (160,140), and the triangle
   (0,0), (100,0), (100,100) with two clicks near its first vertex *)
ScenarioClicks ==
    { [x |-> 100, y |-> 100], [x |-> 160, y |-> 140], [x |-> 0, y |-> 0],
      [x |-> 100, y |-> 0], [x |-> 5, y |-> 5], [x |-> 12, y |-> 0] }

(* one more room can be drawn *)
InitScenario ==
    /\ snapToGrid = TRUE
    /\ InitNoCall
    /\ InitOtherPagesIdle
    /\ isDashboard = FALSE
    /\ gridSize \in {10, 20}
    /\ unassignBinding = "devices"
    /\ hasApp = FALSE
    /\ rooms = << >>
    /\ floors = << rooms >>
    /\ currentFloorIndex = 1
    /\ devices = LoadedDevices
    /\ roomsData = << >>
    /\ isDrawingMode = FALSE
    /\ drawingTool = "rectangle"
    /\ linePoints = << >>
    /\ lineStartPoint = Null
    /\ tempPolyline = "null"
    /\ tempPolygon = "null"
    /\ roomStartPoint = Null
    /\ tempRect = "null"
    /\ pendingRoomData = Null
    /\ selectedRoomId = NoId
    /\ clock = MaxClock
    /\ toastShown = NoToast
    /\ roomSizeText = NoText

NextScenario ==
    \/ \E raw \in ScenarioClicks : MouseDown(raw)
    \/ \E raw \in ScenarioClicks : MouseUp(raw)
    \/ toggleDrawingMode
    \/ \E tool \in Tools : setDrawingTool(tool)
    \/ \E newName \in Names : saveRoomNameInput(newName)
    \/ closeRoomNameInputModal
    \/ \E k \in 1..Len(rooms) : showRoomEditDialog(k)
    \/ closeRoomEditModal

SpecScenario == InitScenario /\ [][NextScenario]_vars

-----------------------------------------------------------------------------
(* The editor page while floors are created and switched: one empty floor is
   loaded, one more room can be drawn, and the pointer visits the corners
   (0,0), (100,0), (100,100) of one rectangle and one triangle. *)

FloorClicks ==
    { [x |-> 0, y |-> 0], [x |-> 100, y |-> 0], [x |-> 100, y |-> 100] }

(* createNewFloor once firestoreAddDoc has resolved: the floor without rooms
   is pushed and loaded.  saveCreateFloor closed its modal before the
   request was sent, so the editor was in use in between. *)
createNewFloor ==
    /\ ~isDashboard
    /\ Len(floors) < MaxFloors
    /\ floors' = Append(floors, << >>)
    /\ currentFloorIndex' = Len(floors) + 1
    /\ rooms' = << >>
    /\ toastShown' = "Floor created successfully!"
    /\ UNCHANGED << pageVars, otherVars, callVars, dialogVars, drawVars, pendingRoomData,
                    selectedRoomId, devices, roomsData, clock >>

InitFloors ==
    /\ snapToGrid = TRUE
    /\ InitNoCall
    /\ InitOtherPagesIdle
    /\ isDashboard = FALSE
    /\ gridSize = 20
    /\ unassignBinding = "devices"
    /\ hasApp = FALSE
    /\ rooms = << >>
    /\ floors = << rooms >>
    /\ currentFloorIndex = 1
    /\ devices = LoadedDevices
    /\ roomsData = << >>
    /\ isDrawingMode = FALSE
    /\ drawingTool = "rectangle"
    /\ linePoints = << >>
    /\ lineStartPoint = Null
    /\ tempPolyline = "null"
    /\ tempPolygon = "null"
    /\ roomStartPoint = Null
    /\ tempRect = "null"
    /\ pendingRoomData = Null
    /\ selectedRoomId = NoId
    /\ clock = MaxClock
    /\ toastShown = NoToast
    /\ roomSizeText = NoText

NextFloors ==
    \/ \E raw \in FloorClicks : MouseDown(raw)
    \/ \E raw \in FloorClicks : MouseUp(raw)
    \/ toggleDrawingMode
    \/ \E tool \in Tools : setDrawingTool(tool)
    \/ \E newName \in Names : saveRoomNameInput(newName)
    \/ closeRoomNameInputModal
    \/ \E index \in 1..Len(floors) : loadFloorPlan(index)
    \/ createNewFloor

SpecFloors == InitFloors /\ [][NextFloors]_vars

-----------------------------------------------------------------------------
(* The pure helpers, each called once on an input drawn from a bounded set.
   The editor itself is idle. *)

MaxGrid == 20           \* grid sizes 1..MaxGrid
MaxValue == 30          \* coordinates -MaxValue..MaxValue
MaxMeasure == 5000      \* lengths 0..MaxMeasure, in units of 1/2000 m
MaxX == 2               \* polygon vertices with x in 0..MaxX
MaxY == 2               \* polygon vertices with y in 0..MaxY
VertexCounts == 0..4    \* every vertex list over the grid of these lengths
TinyScale == 100        \* the named shapes also at 1/TinyScale of their size

InitEditorIdle ==
    /\ InitOtherPagesIdle
    /\ isDashboard = FALSE
    /\ unassignBinding = "devices"
    /\ hasApp = FALSE
    /\ rooms = << >>
    /\ floors = << << >> >>
    /\ currentFloorIndex = 1
    /\ devices = LoadedDevices
    /\ roomsData = << >>
    /\ InitDrawingIdle

editorVars == << isDashboard, unassignBinding, hasApp, isDrawingMode, drawingTool,
                 rooms, floors, currentFloorIndex, linePoints, lineStartPoint,
                 tempPolyline, tempPolygon, roomStartPoint, tempRect,
                 pendingRoomData, selectedRoomId, devices, roomsData, clock,
                 toastShown, roomSizeText >>

Returns(value) ==
    /\ ret = Null
    /\ ret' = [value |-> value]
    /\ UNCHANGED << editorVars, otherVars, gridSize, snapToGrid, call >>

(* snapToGridCoordinate(value) under every setting of its two globals *)
InitSnap ==
    /\ InitEditorIdle
    /\ snapToGrid \in BOOLEAN
    /\ gridSize \in 1..MaxGrid
    /\ call \in { [fn |-> "snapToGridCoordinate", value |-> v] :
                    v \in (-MaxValue)..MaxValue }
    /\ ret = Null

CallSnapToGridCoordinate ==
    /\ call.fn = "snapToGridCoordinate"
    /\ Returns(snapToGridCoordinate(call.value))

SpecSnap == InitSnap /\ [][CallSnapToGridCoordinate]_vars

(* formatMeasurement(meters) *)
MeterValues == { Frac(u, 2000) : u \in 0..MaxMeasure }

InitFormat ==
    /\ InitEditorIdle
    /\ snapToGrid = TRUE
    /\ gridSize = 20
    /\ call \in { [fn |-> "formatMeasurement", meters |-> m] : m \in MeterValues }
    /\ ret = Null

CallFormatMeasurement ==
    /\ call.fn = "formatMeasurement"
    /\ Returns(formatMeasurement(call.meters))

SpecFormat == InitFormat /\ [][CallFormatMeasurement]_vars

(* calculatePolygonCentroid(points) *)
GridPoints == { [x |-> Num(i), y |-> Num(j)] : i \in 0..MaxX, j \in 0..MaxY }

Dart == << [x |-> 0, y |-> 0], [x |-> 1, y |-> 2], [x |-> 2, y |-> 0],
           [x |-> 1, y |-> 3] >>
LShape == << [x |-> 0, y |-> 0], [x |-> 3, y |-> 0], [x |-> 3, y |-> 1],
             [x |-> 1, y |-> 1], [x |-> 1, y |-> 3], [x |-> 0, y |-> 3] >>
UShape == << [x |-> 0, y |-> 0], [x |-> 3, y |-> 0], [x |-> 3, y |-> 3],
             [x |-> 2, y |-> 3], [x |-> 2, y |-> 1], [x |-> 1, y |-> 1],
             [x |-> 1, y |-> 3], [x |-> 0, y |-> 3] >>

Reversed(points) == [i \in 1..Len(points) |-> points[Len(points) + 1 - i]]
Scaled(points, k) ==
    [i \in 1..Len(points) |-> [x |-> Over(points[i].x, Num(k)),
                               y |-> Over(points[i].y, Num(k))]]

NamedShapes ==
    LET shapes == { NumPoints(Dart), NumPoints(LShape), NumPoints(UShape) }
        both == shapes \cup { Reversed(sh) : sh \in shapes }
    IN both \cup { Scaled(sh, TinyScale) : sh \in both }

PolygonInputs ==
    UNION { [1..k -> GridPoints] : k \in VertexCounts } \cup NamedShapes

InitCentroid ==
    /\ InitEditorIdle
    /\ snapToGrid = TRUE
    /\ gridSize = 20
    /\ call \in { [fn |-> "calculatePolygonCentroid", points |-> pts] :
                    pts \in PolygonInputs }
    /\ ret = Null

CallCalculatePolygonCentroid ==
    /\ call.fn = "calculatePolygonCentroid"
    /\ Returns(calculatePolygonCentroid(call.points))

SpecCentroid == InitCentroid /\ [][CallCalculatePolygonCentroid]_vars

(* isPointInPolygon(x, y, points): triangles over the grid and the named
   shapes, tested at every point of the half-step grid around them *)
TestCoordinates(max) == { Frac(h, 2) : h \in (-1)..(2 * max + 1) }

(* the vertex lists of length 3 that start at their lowest-leftmost vertex:
   the loop toggles once per edge, in whatever order the edges come *)
NotAfter(a, b) == Less(a.x, b.x) \/ (a.x = b.x /\ ~Less(b.y, a.y))
Triangles ==
    { t \in [1..3 -> GridPoints] : NotAfter(t[1], t[2]) /\ NotAfter(t[1], t[3]) }

InitContains ==
    /\ InitEditorIdle
    /\ snapToGrid = TRUE
    /\ gridSize = 20
    /\ call \in { [fn |-> "isPointInPolygon", x |-> x, y |-> y, points |-> pts] :
                    x \in TestCoordinates(MaxX), y \in TestCoordinates(MaxY),
                    pts \in Triangles \cup NamedShapes }
    /\ ret = Null

CallIsPointInPolygon ==
    /\ call.fn = "isPointInPolygon"
    /\ Returns(isPointInPolygon(call.x, call.y, call.points))

SpecContains == InitContains /\ [][CallIsPointInPolygon]_vars

(* determineRoomStatusFromApp(sensors), with and without app.js, on every
   combination of sensor statuses *)
SensorStatuses == { "normal", "warning", "critical" }

AllSensors ==
    { [k \in SensorKeys |-> [status |-> f[k]]] : f \in [SensorKeys -> SensorStatuses] }

InitStatus ==
    /\ InitEditorIdle
    /\ snapToGrid = TRUE
    /\ gridSize = 20
    /\ call \in { [fn |-> "determineRoomStatusFromApp", app |-> app,
                   sensors |-> sensors] :
                    app \in BOOLEAN, sensors \in AllSensors }
    /\ ret = Null

CallDetermineRoomStatusFromApp ==
    /\ call.fn = "determineRoomStatusFromApp"
    /\ Returns(determineRoomStatusFromApp(call.app, call.sensors))

SpecStatus == InitStatus /\ [][CallDetermineRoomStatusFromApp]_vars

-----------------------------------------------------------------------------
(* app.js: the dashboard's sensor simulation and its status tracking.
   Two rooms are kept, each with one sensor: room 1 (the realtime room by
   default) with co2, room 2 with pressure, whose thresholds run downwards.
   roomsData is the array app.js exports as window.roomsData. *)

(* the instants (milliseconds) at which a callback may run: on both sides
   of, and on, each minimum duration after 0, and 2 seconds after 10000 *)
Instants == { 0, 2000, 3000, 9000, 10000, 12000 }

MIN_NORMAL_DURATION == 10000
MIN_STATUS_DURATION == 3000

sensorConfig ==
    [ co2 |-> [thresholds |-> [normal |-> 1000, warning |-> 1400]],
      pressure |-> [thresholds |-> [normal |-> 1009, warning |-> 1006]] ]

(* values on both sides of, and on, each threshold *)
SensorValues ==
    [ co2 |-> { 600, 1000, 1400 }, pressure |-> { 1005, 1006, 1009 } ]

(* what the dashboard's sensor callbacks leave alone *)
editorOnlyVars == << isDashboard, gridSize, unassignBinding, hasApp, snapToGrid,
                     isDrawingMode, drawingTool, rooms, floors, currentFloorIndex,
                     linePoints, lineStartPoint, tempPolyline, tempPolygon,
                     roomStartPoint, tempRect, pendingRoomData, selectedRoomId,
                     devices, clock, toastShown, roomSizeText, call, ret,
                     founderVars, alertVars >>

(* the status the thresholds give a value *)
ThresholdStatus(sensorKey, value) ==
    LET thresholds == sensorConfig[sensorKey].thresholds IN
    IF sensorKey = "pressure"
    THEN IF value < thresholds.warning THEN "critical"
         ELSE IF value < thresholds.normal THEN "warning"
         ELSE "normal"
    ELSE IF value >= thresholds.warning THEN "critical"
         ELSE IF value >= thresholds.normal THEN "warning"
         ELSE "normal"

NoTimer == [status |-> "none", changeTime |-> 0]   \* no statusTimer yet

TimerOf(timers, roomId, sensorKey) ==
    IF roomId \in DOMAIN timers /\ sensorKey \in DOMAIN timers[roomId]
    THEN timers[roomId][sensorKey]
    ELSE NoTimer

KeepsStatus_OneDuration(currentStatus, newStatus, timeSinceChange) ==
    newStatus # currentStatus /\ timeSinceChange < MIN_STATUS_DURATION

(* updateSensorStatuses, "Apply status change rules": the tracked status is
   kept and the timer is left alone *)
KeepsStatus(currentStatus, newStatus, timeSinceChange) ==
    IF currentStatus = "normal"
    THEN newStatus # "normal" /\ timeSinceChange < MIN_NORMAL_DURATION
    ELSE IF currentStatus = "critical"
    THEN newStatus = "critical" /\ timeSinceChange < MIN_STATUS_DURATION
    ELSE newStatus # currentStatus /\ timeSinceChange < MIN_STATUS_DURATION

(* updateSensorStatuses, the body run for one sensor: the sensor and its
   statusTimer afterwards *)
UpdateSensorStatus(sensorKey, sensor, timer, now) ==
    LET statusTimer == IF timer = NoTimer
                       THEN [status |-> sensor.status, changeTime |-> now]
                       ELSE timer
        timeSinceChange == now - statusTimer.changeTime
        currentStatus == statusTimer.status
        newStatus == ThresholdStatus(sensorKey, sensor.value)
    IN IF KeepsStatus(currentStatus, newStatus, timeSinceChange)
       THEN [sensor |-> [sensor EXCEPT !.status = currentStatus],
             timer |-> statusTimer]
       ELSE IF sensor.status # newStatus
       THEN [sensor |-> [sensor EXCEPT !.status = newStatus],
             timer |-> [status |-> newStatus, changeTime |-> now]]
       ELSE [sensor |-> sensor, timer |-> statusTimer]

(* the room updateSensorStatuses skips *)
IsRealtimeRoom(room, roomId, listener) == room.id = roomId /\ listener

RoomWithId(rd, id) == rd[CHOOSE i \in 1..Len(rd) : rd[i].id = id]

RoomIds(rd) == { rd[i].id : i \in 1..Len(rd) }

updateSensorStatuses(rd, timers, now, roomId, listener) ==
    LET updated(room, k) ==
            UpdateSensorStatus(k, room.sensors[k], TimerOf(timers, room.id, k), now)
        done == { id \in RoomIds(rd) :
                    ~IsRealtimeRoom(RoomWithId(rd, id), roomId, listener) }
    IN [ roomsData |->
            [i \in 1..Len(rd) |->
                IF rd[i].id \in done
                THEN [rd[i] EXCEPT !.sensors =
                        [k \in DOMAIN rd[i].sensors |-> updated(rd[i], k).sensor]]
                ELSE rd[i]],
         timers |->
            [id \in DOMAIN timers \cup done |->
                IF id \in done
                THEN LET room == RoomWithId(rd, id)
                         old == IF id \in DOMAIN timers THEN DOMAIN timers[id] ELSE {}
                     IN [k \in old \cup DOMAIN room.sensors |->
                            IF k \in DOMAIN room.sensors
                            THEN updated(room, k).timer
                            ELSE timers[id][k]]
                ELSE timers[id]] ]

(* updateSensorStatusForRoom: every status straight from the thresholds *)
updateSensorStatusForRoom(room) ==
    [room EXCEPT !.sensors =
        [k \in DOMAIN room.sensors |->
            [room.sensors[k] EXCEPT !.status =
                ThresholdStatus(k, room.sensors[k].value)]]]

(* simulatePressureForRealtimeRoom with the new pressure value *)
simulatePressureForRealtimeRoom(rd, roomId, value) ==
    [i \in 1..Len(rd) |->
        IF rd[i].id = roomId /\ "pressure" \in DOMAIN rd[i].sensors
        THEN [rd[i] EXCEPT !.sensors.pressure =
                [value |-> value, status |-> ThresholdStatus("pressure", value)]]
        ELSE rd[i]]

(* the interval callback of startSensorUpdates: simulateDataUpdate draws a
   new value for every sensor of the rooms other than the realtime room
   (newValue[key] here), simulates the realtime room's pressure while the
   listener is set, then calls updateSensorStatuses *)
simulateDataUpdate(newValue) ==
    LET pressured == IF realtimeSensorListener
                     THEN simulatePressureForRealtimeRoom(
                              roomsData, realtimeSensorRoomId, newValue.pressure)
                     ELSE roomsData
        simulated == [i \in 1..Len(pressured) |->
                        IF pressured[i].id = realtimeSensorRoomId
                        THEN pressured[i]
                        ELSE [pressured[i] EXCEPT !.sensors =
                                [k \in DOMAIN pressured[i].sensors |->
                                    [pressured[i].sensors[k] EXCEPT
                                        !.value = newValue[k]]]]]
        result == updateSensorStatuses(simulated, sensorStatusTimers, currentTime,
                                       realtimeSensorRoomId, realtimeSensorListener)
    IN /\ roomsData' = result.roomsData
       /\ sensorStatusTimers' = result.timers
       /\ UNCHANGED << currentTime, realtimeSensorRoomId, realtimeSensorListener >>
       /\ UNCHANGED editorOnlyVars

(* the onValue callback of initRealtimeSensorData with a snapshot holding
   co2: the realtime room takes the value, updateSensorStatusForRoom *)
RealtimeSensorData(co2) ==
    /\ realtimeSensorListener
    /\ realtimeSensorRoomId \in RoomIds(roomsData)
    /\ roomsData' =
          [i \in 1..Len(roomsData) |->
              IF roomsData[i].id = realtimeSensorRoomId
              THEN updateSensorStatusForRoom(
                       IF "co2" \in DOMAIN roomsData[i].sensors
                       THEN [roomsData[i] EXCEPT !.sensors.co2.value = co2]
                       ELSE roomsData[i])
              ELSE roomsData[i]]
    /\ UNCHANGED << appVars, editorOnlyVars >>

initRealtimeSensorData ==
    /\ ~realtimeSensorListener
    /\ realtimeSensorListener' = TRUE
    /\ UNCHANGED << roomsData, currentTime, sensorStatusTimers, realtimeSensorRoomId >>
    /\ UNCHANGED editorOnlyVars

(* setRealtimeSensorRoom(roomId): an active listener is cleaned up; the
   timeout that sets it up again is initRealtimeSensorData *)
setRealtimeSensorRoom(roomId) ==
    /\ roomId \in RoomIds(roomsData)
    /\ realtimeSensorRoomId' = roomId
    /\ realtimeSensorListener' = FALSE
    /\ UNCHANGED << roomsData, currentTime, sensorStatusTimers >>
    /\ UNCHANGED editorOnlyVars

(* time passes until a later callback *)
AdvanceTime(now) ==
    /\ now > currentTime
    /\ currentTime' = now
    /\ UNCHANGED << roomsData, sensorStatusTimers, realtimeSensorRoomId,
                    realtimeSensorListener >>
    /\ UNCHANGED editorOnlyVars

(* generated rooms: the status of a sensor is the one its value was drawn for *)
InitSensors ==
    /\ isDashboard = TRUE
    /\ unassignBinding = "devices"
    /\ hasApp = TRUE
    /\ snapToGrid = TRUE
    /\ gridSize = 20
    /\ rooms = << >>
    /\ floors = << << >> >>
    /\ currentFloorIndex = 1
    /\ devices = LoadedDevices
    /\ InitDrawingIdle
    /\ InitNoCall
    /\ InitAppIdle
    /\ InitFounderIdle
    /\ InitAlertsIdle
    /\ roomsData \in
          { << [id |-> 1, name |-> "Meeting Room A",
                sensors |-> [co2 |-> [value |-> c,
                                      status |-> ThresholdStatus("co2", c)]]],
               [id |-> 2, name |-> "Meeting Room B",
                sensors |-> [pressure |-> [value |-> p,
                                           status |-> ThresholdStatus("pressure", p)]]] >> :
              c \in SensorValues.co2, p \in SensorValues.pressure }

NextSensors ==
    \/ \E newValue \in [co2 : SensorValues.co2, pressure : SensorValues.pressure] :
           simulateDataUpdate(newValue)
    \/ \E co2 \in SensorValues.co2 : RealtimeSensorData(co2)
    \/ initRealtimeSensorData
    \/ \E roomId \in RoomIds(roomsData) : setRealtimeSensorRoom(roomId)
    \/ \E now \in Instants : AdvanceTime(now)

SpecSensors == InitSensors /\ [][NextSensors]_vars

-----------------------------------------------------------------------------
(* The founder tools' device data generator.  startSending is an async
   function: a call runs up to its next await, and continues when the
   awaited promise settles; clicks and timer callbacks run in between. *)

(* what the generator's handlers leave alone *)
generatorUnchanged ==
    << isDashboard, gridSize, unassignBinding, hasApp, snapToGrid,
       isDrawingMode, drawingTool, rooms, floors, currentFloorIndex,
       linePoints, lineStartPoint, tempPolyline, tempPolygon,
       roomStartPoint, tempRect, pendingRoomData, selectedRoomId,
       devices, roomsData, clock, toastShown, roomSizeText, call, ret,
       appVars, alertVars >>

(* startSending after waitForFirebase resolved, up to the await of the
   initial data: the inputs are read and checked, isSending is set *)
BeginSending(i, valid) ==
    IF valid
    THEN /\ isSending' = TRUE
         /\ startSendingPc' = [startSendingPc EXCEPT ![i] = "initialData"]
    ELSE /\ startSendingPc' = [startSendingPc EXCEPT ![i] = "returned"]
         /\ UNCHANGED isSending

(* startSending from "Then start realtime updates" on, once the awaited
   updateAllDevices has settled: the interval is created *)
CreateInterval(i) ==
    /\ updateIntervalId' = i
    /\ intervals' = intervals \cup { i }
    /\ startSendingPc' = [startSendingPc EXCEPT ![i] = "returned"]

(* a click on Start: call i of startSending, up to its first await; when
   Firebase is ready the promise of waitForFirebase is already resolved and
   the call continues before any other event *)
startSending(i, valid) ==
    /\ startSendingPc[i] = "notCalled"
    /\ \A j \in 1..(i - 1) : startSendingPc[j] # "notCalled"
    /\ ~isSending
    /\ IF firebaseReady
       THEN BeginSending(i, valid)
       ELSE /\ startSendingPc' = [startSendingPc EXCEPT ![i] = "waitForFirebase"]
            /\ UNCHANGED isSending
    /\ UNCHANGED << firebaseReady, updateIntervalId, intervals, totalUpdates >>
    /\ UNCHANGED generatorUnchanged

(* the page's Firebase module has set window.rtdb and its functions *)
FirebaseLoaded ==
    /\ ~firebaseReady
    /\ firebaseReady' = TRUE
    /\ UNCHANGED << isSending, updateIntervalId, intervals, startSendingPc,
                    totalUpdates >>
    /\ UNCHANGED generatorUnchanged

(* waitForFirebase resolves for call i *)
WaitForFirebaseResolved(i, valid) ==
    /\ startSendingPc[i] = "waitForFirebase"
    /\ firebaseReady
    /\ BeginSending(i, valid)
    /\ UNCHANGED << firebaseReady, updateIntervalId, intervals, totalUpdates >>
    /\ UNCHANGED generatorUnchanged

(* waitForFirebase rejects after 10 seconds: the catch block of call i *)
WaitForFirebaseRejected(i) ==
    /\ startSendingPc[i] = "waitForFirebase"
    /\ ~firebaseReady
    /\ isSending' = FALSE
    /\ startSendingPc' = [startSendingPc EXCEPT ![i] = "returned"]
    /\ UNCHANGED << firebaseReady, updateIntervalId, intervals, totalUpdates >>
    /\ UNCHANGED generatorUnchanged

(* the initial data of call i is stored: updateAllDevices is called; when
   isSending is false it returns at once and the interval is created *)
InitialDataCreated(i) ==
    /\ startSendingPc[i] = "initialData"
    /\ IF isSending
       THEN /\ startSendingPc' = [startSendingPc EXCEPT ![i] = "updateAllDevices"]
            /\ UNCHANGED << updateIntervalId, intervals >>
       ELSE CreateInterval(i)
    /\ UNCHANGED << firebaseReady, isSending, totalUpdates >>
    /\ UNCHANGED generatorUnchanged

(* the updateAllDevices awaited by call i has sent its data *)
FirstUpdateSent(i) ==
    /\ startSendingPc[i] = "updateAllDevices"
    /\ totalUpdates' = totalUpdates + 1
    /\ CreateInterval(i)
    /\ UNCHANGED << firebaseReady, isSending >>
    /\ UNCHANGED generatorUnchanged

(* a click on Stop *)
stopSending ==
    /\ isSending
    /\ isSending' = FALSE
    /\ IF updateIntervalId # NoInterval
       THEN /\ intervals' = intervals \ { updateIntervalId }
            /\ updateIntervalId' = NoInterval
       ELSE UNCHANGED << intervals, updateIntervalId >>
    /\ UNCHANGED << firebaseReady, startSendingPc, totalUpdates >>
    /\ UNCHANGED generatorUnchanged

(* the callback of interval id runs, and its updateAllDevices completes *)
IntervalFires(id) ==
    /\ id \in intervals
    /\ totalUpdates < MaxUpdates + MaxStarts
    /\ totalUpdates' = IF isSending THEN totalUpdates + 1 ELSE totalUpdates
    /\ UNCHANGED << firebaseReady, isSending, updateIntervalId, intervals,
                    startSendingPc >>
    /\ UNCHANGED generatorUnchanged

InitFounder ==
    /\ InitEditorIdle
    /\ snapToGrid = TRUE
    /\ gridSize = 20
    /\ InitNoCall

NextFounder ==
    \/ \E i \in 1..MaxStarts, valid \in BOOLEAN : startSending(i, valid)
    \/ FirebaseLoaded
    \/ \E i \in 1..MaxStarts, valid \in BOOLEAN : WaitForFirebaseResolved(i, valid)
    \/ \E i \in 1..MaxStarts : WaitForFirebaseRejected(i)
    \/ \E i \in 1..MaxStarts : InitialDataCreated(i)
    \/ \E i \in 1..MaxStarts : FirstUpdateSent(i)
    \/ stopSending
    \/ \E id \in 1..MaxStarts : IntervalFires(id)

SpecFounder == InitFounder /\ [][NextFounder]_vars

-----------------------------------------------------------------------------
(* Alerts: generateAlertsFromSensorData saves one alert after the other;
   saveAlertToFirestore awaits the query of getRecentAlerts, then the
   addDoc.  A run continues when the awaited request has been answered;
   the other run, and the clock, move in between. *)

DuplicateWindow == 300000       \* 5 * 60 * 1000

(* the instants at which the runs are observed: the initial run after 3
   seconds, the periodic run after 2 minutes, and 5 and 6 minutes later *)
AlertInstants == { 3000, 120000, 303000, 360000 }

(* what the alert runs leave alone *)
alertsUnchanged ==
    << isDashboard, gridSize, unassignBinding, hasApp, snapToGrid,
       isDrawingMode, drawingTool, rooms, floors, currentFloorIndex,
       linePoints, lineStartPoint, tempPolyline, tempPolygon,
       roomStartPoint, tempRect, pendingRoomData, selectedRoomId,
       devices, roomsData, clock, toastShown, roomSizeText, call, ret,
       appVars, founderVars >>

(* generateAlertsFromSensorData: the alerts of the sensors of room i from
   the keys in order on *)
RECURSIVE SensorAlerts(_, _)
SensorAlerts(room, keys) ==
    IF keys = << >> THEN << >>
    ELSE LET sensorKey == Head(keys)
             rest == SensorAlerts(room, Tail(keys))
         IN IF sensorKey \in DOMAIN room.sensors
               /\ room.sensors[sensorKey].status \in { "warning", "critical" }
            THEN << [type |-> room.sensors[sensorKey].status, roomId |-> room.id,
                     sensorType |-> sensorKey] >> \o rest
            ELSE rest

RECURSIVE RoomAlerts(_, _)
RoomAlerts(rd, i) ==
    IF i > Len(rd) THEN << >>
    ELSE SensorAlerts(rd[i], KeyOrder) \o RoomAlerts(rd, i + 1)

(* getRecentAlerts(timeWindow): the documents not older than the window *)
getRecentAlerts(docs, now, timeWindow) ==
    SelectSeq(docs, LAMBDA d : ~(now - d.timestamp > timeWindow))

(* saveAlertToFirestore: a similar alert of the last 5 minutes exists *)
isDuplicate(docs, now, alert) ==
    LET existingAlerts == getRecentAlerts(docs, now, DuplicateWindow)
    IN \E n \in 1..Len(existingAlerts) :
          /\ existingAlerts[n].roomId = alert.roomId
          /\ existingAlerts[n].sensorType = alert.sensorType
          /\ existingAlerts[n].type = alert.type

(* the run goes on to its next alert, or ends *)
NextAlert(r, rest) ==
    alertRuns' = [alertRuns EXCEPT ![r] =
                    [pc |-> IF rest = << >> THEN "idle" ELSE "getRecentAlerts",
                     pending |-> rest]]

(* a timer callback of initializeAlerts calls generateAlertsFromSensorData:
   the alerts are collected and the first query is sent *)
generateAlertsFromSensorData(r) ==
    /\ alertRuns[r].pc = "idle"
    /\ NextAlert(r, RoomAlerts(roomsData, 1))
    /\ UNCHANGED << alertsCollection, alertsUnchanged >>

(* the query of getRecentAlerts is answered *)
RecentAlertsRead(r) ==
    /\ alertRuns[r].pc = "getRecentAlerts"
    /\ IF isDuplicate(alertsCollection, currentTime, Head(alertRuns[r].pending))
       THEN NextAlert(r, Tail(alertRuns[r].pending))
       ELSE alertRuns' = [alertRuns EXCEPT ![r].pc = "addDoc"]
    /\ UNCHANGED << alertsCollection, alertsUnchanged >>

(* the addDoc is written, with the server's time as timestamp *)
AlertAdded(r) ==
    /\ alertRuns[r].pc = "addDoc"
    /\ Len(alertsCollection) < MaxAlerts
    /\ LET alert == Head(alertRuns[r].pending)
       IN alertsCollection' =
            Append(alertsCollection,
                   [type |-> alert.type, roomId |-> alert.roomId,
                    sensorType |-> alert.sensorType, timestamp |-> currentTime])
    /\ NextAlert(r, Tail(alertRuns[r].pending))
    /\ UNCHANGED alertsUnchanged

(* the dashboard with one room whose sensors are as app.js left them *)
InitAlerts ==
    /\ isDashboard = TRUE
    /\ unassignBinding = "devices"
    /\ hasApp = TRUE
    /\ snapToGrid = TRUE
    /\ gridSize = 20
    /\ rooms = << >>
    /\ floors = << << >> >>
    /\ currentFloorIndex = 1
    /\ devices = LoadedDevices
    /\ InitDrawingIdle
    /\ InitNoCall
    /\ InitOtherPagesIdle
    /\ roomsData \in
          { << [id |-> 1, name |-> "Meeting Room A",
                sensors |-> [co2 |-> [value |-> c,
                                      status |-> ThresholdStatus("co2", c)],
                             pressure |-> [value |-> p,
                                           status |-> ThresholdStatus("pressure", p)]]] >> :
              c \in SensorValues.co2, p \in SensorValues.pressure }

NextAlerts ==
    \/ \E r \in Runs : generateAlertsFromSensorData(r)
    \/ \E r \in Runs : RecentAlertsRead(r)
    \/ \E r \in Runs : AlertAdded(r)
    \/ \E now \in AlertInstants : AdvanceTime(now)

SpecAlerts == InitAlerts /\ [][NextAlerts]_vars

-----------------------------------------------------------------------------
(* Properties of the drawing tool (checked under Spec) *)

RectDraft ==
    /\ isDrawingMode
    /\ drawingTool = "rectangle"
    /\ roomStartPoint # Null
    /\ tempRect # "null"

DragWidth(raw) == Abs(Snap(raw).x - roomStartPoint.x)
DragHeight(raw) == Abs(Snap(raw).y - roomStartPoint.y)

PolygonInProgress ==
    /\ isDrawingMode
    /\ drawingTool = "line"
    /\ Len(linePoints) > 0

ClickClosesPolygon(raw) ==
    DistSq(Snap(raw).x, Snap(raw).y, lineStartPoint.x, lineStartPoint.y) < 15 * 15

AllRooms ==
    { rooms[i] : i \in 1..Len(rooms) }
        \cup UNION { { floors[f][i] : i \in 1..Len(floors[f]) } : f \in 1..Len(floors) }

DrawnRooms == { r \in AllRooms : r.id >= 1 }

(* C1: on mouse release in rectangle mode a Room is added to rooms only if
   the snapped drag is wider than 20 px and higher than 20 px; for a drag
   with width <= 20 or height <= 20 no Room is created and rooms is
   unchanged. *)
C1_RectangleNeedsMinimumSize ==
    [][ \A raw \in Clicks :
          (MouseUp(raw) /\ isDrawingMode /\ drawingTool = "rectangle") =>
             /\ (rooms' # rooms) =>
                   (RectDraft /\ DragWidth(raw) > 20 /\ DragHeight(raw) > 20)
             /\ (RectDraft /\ (DragWidth(raw) <= 20 \/ DragHeight(raw) <= 20)) =>
                   rooms' = rooms ]_vars

C1_Witness ==
    \E r \in DrawnRooms : "width" \in DOMAIN r /\ r.width > 20 /\ r.height > 20

(* C2: with at least 3 accumulated vertices, a click within 15 px of the
   start point adds exactly one Room whose points are the accumulated
   vertices in order, without a closing duplicate, and the drawing state
   returns to Idle. *)
C2_CloseFinalizesPolygon ==
    [][ \A raw \in Clicks :
          (MouseDown(raw) /\ PolygonInProgress /\ Len(linePoints) >= 3
             /\ ClickClosesPolygon(raw)) =>
             /\ Len(rooms') = Len(rooms) + 1
             /\ SubSeq(rooms', 1, Len(rooms)) = rooms
             /\ "points" \in DOMAIN rooms'[Len(rooms')]
             /\ rooms'[Len(rooms')].points = linePoints
             /\ linePoints' = << >>
             /\ lineStartPoint' = Null ]_vars

C2_Witness ==
    /\ linePoints = << >>
    /\ lineStartPoint = Null
    /\ \E r \in DrawnRooms : "points" \in DOMAIN r /\ Len(r.points) = 3

(* C3: a polygon close attempted with fewer than 3 accumulated vertices is
   rejected: no Room is created, an error is shown, and linePoints and
   lineStartPoint are exactly as before the click. *)
C3_ShortCloseRejected ==
    [][ \A raw \in Clicks :
          (MouseDown(raw) /\ PolygonInProgress /\ Len(linePoints) < 3
             /\ ClickClosesPolygon(raw)) =>
             /\ rooms' = rooms
             /\ toastShown' = "Need at least 3 points to create a room"
             /\ linePoints' = linePoints
             /\ lineStartPoint' = lineStartPoint ]_vars

C3_Witness ==
    /\ toastShown = "Need at least 3 points to create a room"
    /\ Len(linePoints) = 2
    /\ lineStartPoint = linePoints[1]

(* C4 as stated: for both kinds of rejected shape (a rectangle below the
   minimum size on release, a polygon closed with fewer than 3 vertices)
   the in-progress draft is discarded and a notification is shown. *)
C4_RejectedShapeDiscardedAndNotified ==
    [][ \A raw \in Clicks :
          /\ (MouseUp(raw) /\ RectDraft
                /\ (DragWidth(raw) <= 20 \/ DragHeight(raw) <= 20)) =>
                /\ roomStartPoint' = Null /\ tempRect' = "null"
                /\ toastShown' # NoToast
          /\ (MouseDown(raw) /\ PolygonInProgress /\ Len(linePoints) < 3
                /\ ClickClosesPolygon(raw)) =>
                /\ linePoints' = << >> /\ lineStartPoint' = Null
                /\ toastShown' # NoToast ]_vars

(* C4 amended: a rectangle below the minimum size on release has its draft
   discarded and no notification is shown; a polygon closed with fewer than
   3 vertices gets a notification and its draft is kept; neither creates a
   Room. *)
C4_RejectedShapeHandling ==
    [][ \A raw \in Clicks :
          /\ (MouseUp(raw) /\ RectDraft
                /\ (DragWidth(raw) <= 20 \/ DragHeight(raw) <= 20)) =>
                /\ roomStartPoint' = Null /\ tempRect' = "null"
                /\ toastShown' = NoToast
                /\ rooms' = rooms
          /\ (MouseDown(raw) /\ PolygonInProgress /\ Len(linePoints) < 3
                /\ ClickClosesPolygon(raw)) =>
                /\ linePoints' = linePoints /\ lineStartPoint' = lineStartPoint
                /\ tempPolyline' = tempPolyline /\ tempPolygon' = tempPolygon
                /\ toastShown' = "Need at least 3 points to create a room"
                /\ rooms' = rooms ]_vars

C4_Witness ==
    /\ toastShown = "Need at least 3 points to create a room"
    /\ Len(linePoints) = 1
    /\ tempPolyline = "attached"

(* C5: while a polygon is drawn, a click that is not within closing
   distance of the start point appends a vertex only if it is more than
   15 px from the preceding vertex; otherwise linePoints is unchanged. *)
C5_VertexNeedsSeparation ==
    [][ \A raw \in Clicks :
          (MouseDown(raw) /\ PolygonInProgress /\ ~ClickClosesPolygon(raw)) =>
             LET p == Snap(raw)
                 last == linePoints[Len(linePoints)]
             IN IF DistSq(last.x, last.y, p.x, p.y) > 15 * 15
                THEN linePoints' = Append(linePoints, p)
                ELSE linePoints' = linePoints ]_vars

C5_Witness ==
    /\ Len(linePoints) >= 2
    /\ DistSq(linePoints[1].x, linePoints[1].y,
              linePoints[2].x, linePoints[2].y) > 15 * 15

(* C6: a cancel signal while a polygon is drawn (Escape, or a switch to
   another tool) empties linePoints, nulls lineStartPoint, clears the
   preview handles and leaves rooms unchanged. *)
C6_CancelReturnsToIdle ==
    [][ ((KeyEscape \/ \E tool \in Tools \ {"line"} : setDrawingTool(tool))
           /\ PolygonInProgress) =>
          /\ linePoints' = << >>
          /\ lineStartPoint' = Null
          /\ tempPolyline' = "null"
          /\ tempPolygon' = "null"
          /\ rooms' = rooms ]_vars

C6_Witness ==
    /\ toastShown = "Line drawing cancelled"
    /\ linePoints = << >>
    /\ tempPolyline = "null"

(* C7: at most one drawing session is in progress: a polygon is never
   started while one is incomplete, and a rectangle draft (roomStartPoint
   set) and a polygon draft (linePoints non-empty) never coexist. *)
C7_SingleDrawingSession ==
    /\ [](~(roomStartPoint # Null /\ Len(linePoints) > 0))
    /\ [][ (Len(linePoints) > 0 /\ Len(linePoints') > 0) =>
              (lineStartPoint' = lineStartPoint /\ linePoints'[1] = linePoints[1]) ]_vars

(* C8: every room created by the drawing tool is either a polygon room with
   at least 3 points and no top-level rectangle fields, or a rectangle room
   with width > 20 and height > 20 and no points. *)
IsPolygonRoom(r) ==
    /\ "points" \in DOMAIN r
    /\ Len(r.points) >= 3
    /\ DOMAIN r \cap { "x", "y", "width", "height" } = {}

IsRectangleRoom(r) ==
    /\ { "x", "y", "width", "height" } \subseteq DOMAIN r
    /\ r.width > 20 /\ r.height > 20
    /\ "points" \notin DOMAIN r

C8_RoomsWellFormed ==
    \A r \in AllRooms : IsPolygonRoom(r) \/ IsRectangleRoom(r)

C8_Witness ==
    /\ pendingRoomData = Null
    /\ \E r \in DrawnRooms : r.name = "Lab"

(* C11: a committed rectangle room is canonical whatever the drag
   direction: for the snapped start (x1,y1) and the snapped release
   (x2,y2) the room has x = min(x1,x2), y = min(y1,y2), width = |x2-x1|
   and height = |y2-y1|. *)
C11_CommittedRectangleCanonical ==
    [][ \A raw \in Clicks :
          (MouseUp(raw) /\ Len(rooms') = Len(rooms) + 1) =>
             LET r == rooms'[Len(rooms')]
                 x1 == roomStartPoint.x   y1 == roomStartPoint.y
                 x2 == Snap(raw).x        y2 == Snap(raw).y
             IN /\ r.x = (IF x1 <= x2 THEN x1 ELSE x2)
                /\ r.y = (IF y1 <= y2 THEN y1 ELSE y2)
                /\ r.width = (IF x2 >= x1 THEN x2 - x1 ELSE x1 - x2)
                /\ r.height = (IF y2 >= y1 THEN y2 - y1 ELSE y1 - y2) ]_vars

C11_Witness ==
    /\ roomStartPoint = Null
    /\ pendingRoomData # Null
    /\ "width" \in DOMAIN pendingRoomData.room
    /\ pendingRoomData.room.x = 0 /\ pendingRoomData.room.y = 0
    /\ pendingRoomData.room.width = 40 /\ pendingRoomData.room.height = 40

(* C12: the first click with the line tool and no polygon in progress
   records the snapped point as both the start point and the first vertex,
   and in every state where a polygon is in progress lineStartPoint equals
   the first element of linePoints. *)
C12_StartPointIsFirstVertex ==
    /\ [](Len(linePoints) > 0 => lineStartPoint = linePoints[1])
    /\ [][ \A raw \in Clicks :
             (MouseDown(raw) /\ isDrawingMode /\ drawingTool = "line"
                /\ Len(linePoints) = 0) =>
                (linePoints' = << Snap(raw) >> /\ lineStartPoint' = Snap(raw)) ]_vars

C12_Witness ==
    /\ Len(linePoints) >= 2
    /\ lineStartPoint = linePoints[1]
    /\ lineStartPoint # [x |-> 0, y |-> 0]


-----------------------------------------------------------------------------
(* Properties of rooms, devices and sensor data (checked under SpecRooms) *)

SensorUpdate ==
    \/ UpdateAllRoomStatuses
    \/ RefreshAllRoomStatuses
    \/ \E deviceId \in DeviceIds, reading \in Readings :
          DeviceDataChanged(deviceId, reading)

SameButStatus(before, after) ==
    /\ DOMAIN after = DOMAIN before
    /\ \A field \in DOMAIN before \ { "status" } : after[field] = before[field]

(* C9: sensor-driven updates change no room's geometry and add or remove no
   room; of a room's fields only status may change. *)
C9_SensorUpdatesKeepGeometry ==
    [][ SensorUpdate =>
          /\ Len(rooms') = Len(rooms)
          /\ \A i \in 1..Len(rooms) : SameButStatus(rooms[i], rooms'[i])
          /\ Len(floors') = Len(floors)
          /\ \A f \in 1..Len(floors) :
                /\ Len(floors'[f]) = Len(floors[f])
                /\ \A i \in 1..Len(floors[f]) :
                      SameButStatus(floors[f][i], floors'[f][i]) ]_vars

C9_Witness ==
    /\ isDashboard
    /\ \E i \in 1..Len(rooms) :
          /\ rooms[i].deviceId # NoDevice
          /\ rooms[i].status \in { "warning", "danger" }

(* C10: deleting a room that has a device assigned removes the room and
   clears the assignment: afterwards the device is assigned to no room. *)
C10_DeleteClearsAssignment ==
    [][ \A k \in 1..Len(rooms) :
          (deleteRoom /\ rooms[k].id = selectedRoomId
             /\ rooms[k].deviceId \in DOMAIN devices
             /\ devices[rooms[k].deviceId].assignedToRoom = rooms[k].id) =>
             /\ ~HasRoom(rooms', rooms[k].id)
             /\ devices'[rooms[k].deviceId].assignedToRoom = NoId
             /\ devices'[rooms[k].deviceId].assignedToRoomName = NoName ]_vars

-----------------------------------------------------------------------------
(* Properties of the pure helpers *)

Returned(fn) == call # Null /\ call.fn = fn /\ ret # Null

(* What a valid simple polygon is, stated with orientation tests only *)
Sign(a) == IF a.n > 0 THEN 1 ELSE IF a.n < 0 THEN -1 ELSE 0

Orient(a, b, c) ==
    Sign(Minus(Times(Minus(b.x, a.x), Minus(c.y, a.y)),
               Times(Minus(b.y, a.y), Minus(c.x, a.x))))

Between(u, v, w) ==
    \/ ~Less(w, u) /\ ~Less(v, w)
    \/ ~Less(w, v) /\ ~Less(u, w)

OnSegment(a, b, q) ==
    /\ Orient(a, b, q) = 0
    /\ Between(a.x, b.x, q.x)
    /\ Between(a.y, b.y, q.y)

SegmentsMeet(a, b, c, d) ==
    \/ /\ Orient(a, b, c) * Orient(a, b, d) < 0
       /\ Orient(c, d, a) * Orient(c, d, b) < 0
    \/ OnSegment(a, b, c) \/ OnSegment(a, b, d)
    \/ OnSegment(c, d, a) \/ OnSegment(c, d, b)

NextVertex(points, i) == points[(i % Len(points)) + 1]

IsSimplePolygon(points) ==
    LET n == Len(points) IN
    /\ n >= 3
    /\ \A i, j \in 1..n : i < j => points[i] # points[j]
    /\ \A i, j \in 1..n :
          i < j =>
             LET a == points[i]   b == NextVertex(points, i)
                 c == points[j]   d == NextVertex(points, j)
             IN IF b = c THEN ~OnSegment(a, b, d) /\ ~OnSegment(c, d, a)
                ELSE IF d = a THEN ~OnSegment(a, b, c) /\ ~OnSegment(c, d, b)
                ELSE ~SegmentsMeet(a, b, c, d)

ValidSimplePolygon(points) ==
    /\ IsSimplePolygon(points)
    /\ SignedArea(points).n # 0

AreaBelowEpsilon(points) == Less(MathAbs(SignedArea(points)), Frac(1, 1000))

(* C13 as stated: for every valid simple polygon (at least 3 vertices, not
   self-intersecting, non-zero area) calculatePolygonCentroid returns a
   point p for which isPointInPolygon(p.x, p.y, points) is true. *)
C13_CentroidInsideAnyValidPolygon ==
    (Returned("calculatePolygonCentroid") /\ ValidSimplePolygon(call.points))
       => isPointInPolygon(ret.value.x, ret.value.y, call.points)

(* C13 amended: for every valid simple polygon whose area is not below the
   0.001 epsilon calculatePolygonCentroid returns a point p for which
   isPointInPolygon(p.x, p.y, points) is true. *)
C13_CentroidInsidePolygonOfArea ==
    (/\ Returned("calculatePolygonCentroid")
     /\ ValidSimplePolygon(call.points)
     /\ ~AreaBelowEpsilon(call.points))
       => isPointInPolygon(ret.value.x, ret.value.y, call.points)

C13_Witness ==
    /\ Returned("calculatePolygonCentroid")
    /\ call.points = NumPoints(Dart)
    /\ ret.value = [x |-> Frac(3, 2), y |-> Num(1)]
    /\ isPointInPolygon(ret.value.x, ret.value.y, call.points)

(* C14: for fewer than 3 points, and for a polygon whose signed area is
   below the epsilon in absolute value (all vertices collinear, say),
   calculatePolygonCentroid returns the arithmetic mean of the vertices,
   and returns without an error; for no points at all it returns (0, 0). *)
C14_DegenerateCentroidIsMean ==
    (/\ Returned("calculatePolygonCentroid")
     /\ (Len(call.points) < 3 \/ AreaBelowEpsilon(call.points)))
       => LET points == call.points
              n == Len(points)
          IN IF n = 0 THEN ret.value = [x |-> Num(0), y |-> Num(0)]
             ELSE /\ Times(ret.value.x, Num(n))
                       = NumSum([i \in 1..n |-> points[i].x])
                  /\ Times(ret.value.y, Num(n))
                       = NumSum([i \in 1..n |-> points[i].y])

C14_Witness ==
    /\ Returned("calculatePolygonCentroid")
    /\ call.points = << [x |-> Num(0), y |-> Num(0)], [x |-> Num(1), y |-> Num(1)],
                        [x |-> Num(2), y |-> Num(2)] >>
    /\ ret.value = [x |-> Num(1), y |-> Num(1)]

(* The interior of a simple polygon, stated without the code's ray: a point
   off the boundary is interior when a ray going straight up from it
   crosses the boundary an odd number of times. *)
OnBoundary(q, points) ==
    \E i \in 1..Len(points) : OnSegment(points[i], NextVertex(points, i), q)

EdgeAbove(q, a, b) ==
    \/ /\ ~Less(q.x, a.x) /\ Less(q.x, b.x)
       /\ Orient(a, b, q) < 0
    \/ /\ ~Less(q.x, b.x) /\ Less(q.x, a.x)
       /\ Orient(b, a, q) < 0

InInterior(q, points) ==
    Cardinality({ i \in 1..Len(points) :
                    EdgeAbove(q, points[i], NextVertex(points, i)) }) % 2 = 1

(* C15: for every simple polygon and every test point not on its boundary
   isPointInPolygon returns true exactly when the point lies in the
   polygon's interior. *)
C15_ContainsIsExact ==
    (/\ Returned("isPointInPolygon")
     /\ IsSimplePolygon(call.points)
     /\ ~OnBoundary([x |-> call.x, y |-> call.y], call.points))
       => (ret.value <=> InInterior([x |-> call.x, y |-> call.y], call.points))

C15_Witness ==
    /\ Returned("isPointInPolygon")
    /\ call.points = NumPoints(UShape)
    /\ call.x = Frac(1, 2)
    /\ call.y = Frac(5, 2)
    /\ ret.value = TRUE

(* C16: with snapping enabled snapToGridCoordinate(value) is the multiple
   of gridSize nearest to value (no multiple is nearer); with snapping
   disabled it is value itself. *)
C16_SnapIsNearestMultiple ==
    Returned("snapToGridCoordinate") =>
       IF snapToGrid
       THEN /\ ret.value % gridSize = 0
            /\ \A k \in (-MaxValue - 1)..(MaxValue + 1) :
                  (IF ret.value >= call.value THEN ret.value - call.value
                   ELSE call.value - ret.value)
                    <= (IF k * gridSize >= call.value
                        THEN k * gridSize - call.value
                        ELSE call.value - k * gridSize)
       ELSE ret.value = call.value

C16_Witness ==
    /\ Returned("snapToGridCoordinate")
    /\ snapToGrid
    /\ gridSize = 20
    /\ call.value = 27
    /\ ret.value = 20

(* C17: snapping is idempotent: snapping a snapped value returns it
   unchanged, for every value and every grid size g > 0. *)
C17_SnapIdempotent ==
    Returned("snapToGridCoordinate") =>
       snapToGridCoordinate(ret.value) = ret.value

C17_Witness ==
    /\ Returned("snapToGridCoordinate")
    /\ snapToGrid
    /\ gridSize = 20
    /\ call.value = 30
    /\ ret.value = 40

(* C18: formatMeasurement renders a value under 1 meter in centimeters
   rounded to one decimal place and a value of 1 meter or more in meters
   rounded to two decimal places; 0.5 gives "50 cm", 2.345 gives "2.35 m"
   and 0.999 gives "99.9 cm". *)
NearestInteger(a, k) == ~Less(Frac(1, 2), MathAbs(Minus(a, Num(k))))

C18_FormatMeasurement ==
    Returned("formatMeasurement") =>
       LET meters == call.meters
           tenthsOfCm == (1000 * meters.n) \div meters.d
           hundredthsOfM == (100 * meters.n) \div meters.d
       IN /\ Less(meters, Num(1)) =>
                \E t \in { tenthsOfCm, tenthsOfCm + 1 } :
                   /\ NearestInteger(Times(meters, Num(1000)), t)
                   /\ ret.value = NumberToString(Frac(t, 10)) \o " cm"
          /\ ~Less(meters, Num(1)) =>
                \E h \in { hundredthsOfM, hundredthsOfM + 1 } :
                   /\ NearestInteger(Times(meters, Num(100)), h)
                   /\ ret.value = NumberToString(Frac(h, 100)) \o " m"
          /\ meters = Frac(1, 2) => ret.value = "50 cm"
          /\ meters = Frac(2345, 1000) => ret.value = "2.35 m"
          /\ meters = Frac(999, 1000) => ret.value = "99.9 cm"

C18_Witness ==
    /\ Returned("formatMeasurement")
    /\ call.meters = Frac(2345, 1000)
    /\ ret.value = "2.35 m"

-----------------------------------------------------------------------------
(* Properties of the two drawings (checked under SpecScenario) *)

IsScenarioRectangle(r) ==
    /\ "width" \in DOMAIN r
    /\ r.x = 100 /\ r.y = 100 /\ r.width = 60 /\ r.height = 40

(* press at (100,100), release at (160,140), rectangle tool, 20 px grid *)
ReleaseCommitsScenarioRectangle ==
    (/\ MouseUp([x |-> 160, y |-> 140])
     /\ gridSize = 20 /\ snapToGrid
     /\ RectDraft
     /\ roomStartPoint = [x |-> 100, y |-> 100])
       => /\ Len(rooms') = Len(rooms) + 1
          /\ SubSeq(rooms', 1, Len(rooms)) = rooms
          /\ IsScenarioRectangle(rooms'[Len(rooms')])

DialogShowsForScenarioRectangle(text) ==
    \A k \in 1..Len(rooms) :
       (showRoomEditDialog(k) /\ IsScenarioRectangle(rooms[k]))
          => roomSizeText' = text

(* C19 as stated: on the 20 px grid with snapping on, pressing at (100,100)
   and releasing at (160,140) in rectangle mode commits a room with x = 100,
   y = 100, width = 60, height = 40, and its size label reads
   "1.2 m × 0.8 m". *)
C19_RectangleLabelInMeters ==
    [][ /\ ReleaseCommitsScenarioRectangle
        /\ DialogShowsForScenarioRectangle("1.2 m × 0.8 m") ]_vars

(* C19 amended: the same drawing commits the room with x = 100, y = 100,
   width = 60, height = 40, and its size label reads "1.2 m × 80 cm":
   the height, 0.8 m, is under 1 m and is shown in centimeters. *)
C19_RectangleLabel ==
    [][ /\ ReleaseCommitsScenarioRectangle
        /\ DialogShowsForScenarioRectangle("1.2 m × 80 cm") ]_vars

C19_Witness ==
    /\ gridSize = 20
    /\ roomSizeText = "1.2 m × 80 cm"
    /\ \E k \in 1..Len(rooms) :
          /\ IsScenarioRectangle(rooms[k])
          /\ selectedRoomId = rooms[k].id

ScenarioTriangle ==
    << [x |-> 0, y |-> 0], [x |-> 100, y |-> 0], [x |-> 100, y |-> 100] >>

LineToolActive == isDrawingMode /\ drawingTool = "line"

(* the three clicks, one after the other, give the three vertices *)
ClicksBuildScenarioTriangle ==
    \A n \in 0..2 :
       (/\ MouseDown(ScenarioTriangle[n + 1])
        /\ LineToolActive
        /\ linePoints = SubSeq(ScenarioTriangle, 1, n))
          => linePoints' = SubSeq(ScenarioTriangle, 1, n + 1)

TriangleDrawn == LineToolActive /\ linePoints = ScenarioTriangle

SquaredDistanceToOrigin(q) == q.x * q.x + q.y * q.y

(* a closing click adds the triangle as a room, with a label position
   strictly inside it *)
ClosesScenarioTriangle ==
    /\ linePoints' = << >>
    /\ Len(rooms') = Len(rooms) + 1
    /\ SubSeq(rooms', 1, Len(rooms)) = rooms
    /\ LET r == rooms'[Len(rooms')]
           c == calculatePolygonCentroid(NumPoints(r.points))
       IN /\ r.points = ScenarioTriangle
          /\ InInterior(c, NumPoints(r.points))
          /\ ~OnBoundary(c, NumPoints(r.points))

(* C20 as stated: with the line tool, clicking (0,0), (100,0), (100,100)
   and then clicking within 15 px of (0,0) closes a polygon room with
   exactly those 3 vertices, whose label centroid lies strictly inside the
   triangle. *)
C20_ClickNearStartClosesTriangle ==
    /\ [](TriangleDrawn =>
            \A raw \in ScenarioClicks :
               SquaredDistanceToOrigin(raw) < 15 * 15 =>
                  isPointClose(Snap(raw).x, Snap(raw).y,
                               lineStartPoint.x, lineStartPoint.y))
    /\ [][ /\ ClicksBuildScenarioTriangle
           /\ \A raw \in ScenarioClicks :
                 (/\ MouseDown(raw)
                  /\ TriangleDrawn
                  /\ SquaredDistanceToOrigin(raw) < 15 * 15)
                    => ClosesScenarioTriangle ]_vars

(* C20 amended: with the line tool, clicking (0,0), (100,0), (100,100) and
   then a click whose grid-snapped position is within 15 px of (0,0) closes
   a polygon room with exactly those 3 vertices, whose label centroid lies
   strictly inside the triangle. *)
C20_SnappedClickNearStartClosesTriangle ==
    /\ [](TriangleDrawn => lineStartPoint = [x |-> 0, y |-> 0])
    /\ [][ /\ ClicksBuildScenarioTriangle
           /\ \A raw \in ScenarioClicks :
                 (/\ MouseDown(raw)
                  /\ TriangleDrawn
                  /\ SquaredDistanceToOrigin(Snap(raw)) < 15 * 15)
                    => ClosesScenarioTriangle ]_vars

C20_Witness ==
    /\ linePoints = << >>
    /\ pendingRoomData # Null
    /\ "points" \in DOMAIN pendingRoomData.room
    /\ pendingRoomData.room.points = ScenarioTriangle
    /\ \E k \in 1..Len(rooms) : rooms[k].id = pendingRoomData.roomId

-----------------------------------------------------------------------------
(* Further properties of the drawing tool (checked under Spec) *)

(* C21: a rectangle room is only committed from the start point of the
   mousedown of the same drag: once drawing mode is off, or the tool is
   not the rectangle tool, no rectangle draft remains (no start point is
   kept), so a later mouseup cannot create a room without a new mousedown. *)
C21_NoStaleRectangleDraft ==
    (~isDrawingMode \/ drawingTool # "rectangle") => roomStartPoint = Null

-----------------------------------------------------------------------------
(* Properties of device assignment (checked under SpecDevices) *)

CannotSucceed(deviceId) ==
    /\ deviceId # NoDevice
    /\ \/ deviceId \notin DOMAIN devices
       \/ /\ devices[deviceId].assignedToRoom # NoId
          /\ devices[deviceId].assignedToRoom # selectedRoomId

RoomIsOpen == \E k \in 1..Len(rooms) : rooms[k].id = selectedRoomId

(* C22: a device selection that cannot succeed (the device is assigned to
   another room, or assignDeviceToRoom fails, as with 'Device not found')
   is rejected with an error and changes nothing: the rooms and every
   device's assignment are as before the call. *)
C22_RejectedSelectionChangesNothing ==
    [][ \A deviceId \in DeviceChoices :
          (selectDeviceFromDropdown(deviceId) /\ RoomIsOpen
             /\ CannotSucceed(deviceId))
            => /\ rooms' = rooms
               /\ devices' = devices
               /\ toastShown' \in { "Device is already assigned",
                                    "Device not found" } ]_vars

(* C23: a room of the loaded floor has deviceId d exactly when device d
   records assignedToRoom equal to that room's id, so no two rooms hold
   the same device. *)
C23_AssignmentConsistent ==
    \A k \in 1..Len(rooms) :
       /\ rooms[k].deviceId # NoDevice =>
             /\ rooms[k].deviceId \in DOMAIN devices
             /\ devices[rooms[k].deviceId].assignedToRoom = rooms[k].id
       /\ \A d \in DOMAIN devices :
             devices[d].assignedToRoom = rooms[k].id => rooms[k].deviceId = d

-----------------------------------------------------------------------------
(* Properties of the room status *)

(* C24: the room status is the same whether or not app.js is loaded: for
   every combination of sensor statuses determineRoomStatusFromApp returns
   what app.js determineRoomStatus returns. *)
C24_FallbackStatusSameAsApp ==
    Returned("determineRoomStatusFromApp") =>
       ret.value = determineRoomStatus(call.sensors)

-----------------------------------------------------------------------------
(* Further properties of the two drawings (checked under SpecScenario) *)

FarApart(p, q) == DistSq(p.x, p.y, q.x, q.y) >= 15 * 15

(* C25: in every committed polygon room every pair of consecutive vertices
   is at least 15 px apart, and no vertex other than the first lies within
   15 px of the first vertex. *)
C25_PolygonVerticesSeparated ==
    \A r \in AllRooms :
       "points" \in DOMAIN r =>
          /\ \A i \in 1..(Len(r.points) - 1) :
                FarApart(r.points[i], r.points[i + 1])
          /\ \A i \in 2..Len(r.points) : FarApart(r.points[i], r.points[1])

(* a polygon that starts at (100,0) and goes on to (0,0): the clicks that
   snap to (10,0) and (10,10) were too close to (0,0) to become vertices *)
C25_Witness ==
    /\ gridSize = 10
    /\ \E r \in AllRooms :
          /\ "points" \in DOMAIN r
          /\ r.points = << [x |-> 100, y |-> 0], [x |-> 0, y |-> 0],
                           [x |-> 100, y |-> 100] >>

-----------------------------------------------------------------------------
(* Properties of the name prompt and of floor changes (checked under
   SpecFloors) *)

PromptedRoomId == pendingRoomData.roomId

OtherFloorsUnchanged ==
    /\ Len(floors') = Len(floors)
    /\ \A f \in 1..Len(floors) : f # currentFloorIndex => floors'[f] = floors[f]

(* C26: the name prompt resolves the drawn room cleanly: cancelling removes
   exactly the room whose completion opened the prompt and leaves every
   other room unchanged, saving an empty name changes nothing, saving a
   non-empty name keeps the room with that name; so while no prompt is open
   no drawn room still carries the name it was created with. *)
C26_NamePromptResolvesRoom ==
    /\ [](pendingRoomData = Null => \A r \in DrawnRooms : r.name # "New Room")
    /\ [][ /\ closeRoomNameInputModal =>
                /\ HasRoom(rooms, PromptedRoomId)
                /\ rooms' = RemoveAt(rooms,
                               FirstIndex(rooms, LAMBDA r : r.id = PromptedRoomId))
                /\ OtherFloorsUnchanged
           /\ saveRoomNameInput("") =>
                /\ rooms' = rooms
                /\ floors' = floors
                /\ pendingRoomData' = pendingRoomData
           /\ \A newName \in Names \ { "" } :
                saveRoomNameInput(newName) =>
                    /\ HasRoom(rooms, PromptedRoomId)
                    /\ rooms' = RenameIn(rooms, PromptedRoomId, newName)
                    /\ OtherFloorsUnchanged ]_vars

(* C27: a polygon room is added to the floor that was current when its
   first vertex was placed: a change of the current floor never carries a
   polygon in progress over to the newly loaded floor, where a closing
   click would add a room built from the earlier vertices. *)
C27_PolygonStaysOnItsFloor ==
    [][ (Len(linePoints) > 0 /\ currentFloorIndex' # currentFloorIndex)
            => Len(linePoints') = 0 ]_vars

-----------------------------------------------------------------------------
(* Properties of the dashboard's sensor statuses (checked under SpecSensors) *)

(* the value the sensor sensorKey (kept by one room) has after the step *)
ValueAfter(sensorKey) ==
    LET i == CHOOSE j \in 1..Len(roomsData) : sensorKey \in DOMAIN roomsData[j].sensors
    IN roomsData'[i].sensors[sensorKey].value

(* the step is the interval callback, with the values the sensors then have *)
PeriodicUpdate ==
    simulateDataUpdate([co2 |-> ValueAfter("co2"), pressure |-> ValueAfter("pressure")])

(* C28: in the periodic status update of the rooms that are not the
   realtime room, a sensor tracked as normal keeps that status while less
   than 10 seconds have passed since its last tracked change, a sensor
   tracked as warning keeps it while less than 3 seconds have passed, and a
   sensor tracked as critical takes the warning or normal status of its new
   value at once. *)
C28_StatusDwellTimes ==
    [][ PeriodicUpdate =>
          \A i \in 1..Len(roomsData) : \A k \in DOMAIN roomsData[i].sensors :
            LET room == roomsData[i]
                timer == TimerOf(sensorStatusTimers, room.id, k)
                since == currentTime - timer.changeTime
                after == roomsData'[i].sensors[k]
                timerAfter == TimerOf(sensorStatusTimers', room.id, k)
            IN (/\ ~IsRealtimeRoom(room, realtimeSensorRoomId, realtimeSensorListener)
                /\ timer # NoTimer) =>
                 /\ (timer.status = "normal" /\ since < 10000) =>
                        (after.status = "normal" /\ timerAfter.status = "normal")
                 /\ (timer.status = "warning" /\ since < 3000) =>
                        (after.status = "warning" /\ timerAfter.status = "warning")
                 /\ (/\ timer.status = "critical"
                     /\ ThresholdStatus(k, after.value) # "critical") =>
                        after.status = ThresholdStatus(k, after.value) ]_vars

(* a sensor that stayed normal for 10 seconds, turned warning, and is held
   at warning although its value no longer says so *)
C28_Witness ==
    \E i \in 1..Len(roomsData) : \E k \in DOMAIN roomsData[i].sensors :
        LET room == roomsData[i]
            timer == TimerOf(sensorStatusTimers, room.id, k)
        IN /\ ~IsRealtimeRoom(room, realtimeSensorRoomId, realtimeSensorListener)
           /\ timer.status = "warning"
           /\ timer.changeTime >= 10000
           /\ currentTime > timer.changeTime
           /\ currentTime - timer.changeTime < 3000
           /\ room.sensors[k].status = "warning"
           /\ ThresholdStatus(k, room.sensors[k].value) # "warning"

-----------------------------------------------------------------------------
(* Properties of the founder tools' data generator (checked under
   SpecFounder) *)

(* C29: under every interleaving of Start and Stop clicks with the steps of
   startSending, at most one periodic update timer exists, and none exists
   while isSending is false (so after stopSending no timer of an earlier
   startSending remains to fire). *)
C29_AtMostOneTimerAndOnlyWhileSending ==
    /\ Cardinality(intervals) <= 1
    /\ ~isSending => intervals = {}

-----------------------------------------------------------------------------
(* Properties of alert saving (checked under SpecAlerts) *)

(* C30: the alerts collection never holds two alerts with the same roomId,
   sensorType and type whose timestamps are within 5 minutes of each
   other, also when two alert-generation runs overlap. *)
C30_NoDuplicateAlerts ==
    \A m, n \in 1..Len(alertsCollection) :
        (/\ m < n
         /\ alertsCollection[m].roomId = alertsCollection[n].roomId
         /\ alertsCollection[m].sensorType = alertsCollection[n].sensorType
         /\ alertsCollection[m].type = alertsCollection[n].type)
          => alertsCollection[n].timestamp - alertsCollection[m].timestamp
                > 5 * 60 * 1000

====
